---- MODULE Spec2Model ----
(***************************************************************************)
(* Model of the CSV/XML -> I14Y JSON transformer                           *)
(* (AD_I14Y_transformator.py) and of the concept lookup it consumes        *)
(* (I14Y_API_handling.py).                                                 *)
(*                                                                         *)
(* Python strings are sequences of one-character strings, so that          *)
(* strip(), endswith(), "in" and the regular expressions are computed      *)
(* character by character.  Python's None is the one-element sequence     *)
(* None, whose element is not a character.  Python dicts are functions    *)
(* (records); Python lists are sequences.                                  *)
(***************************************************************************)
EXTENDS Integers, Sequences, FiniteSets, TLC

VARIABLES
  new,          \* main: the -n flag (sys.argv[7] == "-n")
  folder,       \* main: os.listdir(input_folder), with each file's content
  idx,          \* main: position of the for loop in folder
  pc,           \* main: "loop", "done" or "crashed" (uncaught exception)
  transformer,  \* main: the AD_csv_to_i14y_json instance of the last iteration
  fs,           \* the output folder: path -> JSON document written there
  printed,      \* stdout: the "Transformed <filename> -> <new_filename>" lines
  requests,     \* the registry: lookups received, with the response given
  runs,         \* the invocations of main that ended: flag, last transformer, lookups
  api           \* an I14yApiClient, its clock, the requests it sent and the registry

vars == <<new, folder, idx, pc, transformer, fs, printed, requests, runs, api>>

----------------------------------------------------------------------------
(* Python values *)

None == <<"None">>

Whitespace == {" ", "\t", "\n"}

Digits == {"0", "1", "2", "3", "4", "5", "6", "7", "8", "9"}

\* bool(x) of a str or None
Truthy(x) == x # None /\ x # <<>>

RECURSIVE lstrip(_)
lstrip(s) ==
  IF s = <<>> THEN <<>>
  ELSE IF Head(s) \in Whitespace THEN lstrip(Tail(s)) ELSE s

RECURSIVE rstrip(_)
rstrip(s) ==
  IF s = <<>> THEN <<>>
  ELSE IF s[Len(s)] \in Whitespace THEN rstrip(SubSeq(s, 1, Len(s) - 1)) ELSE s

\* str.strip()
strip(s) == rstrip(lstrip(s))

\* s[i:] of a str, i counted from 1
From(s, i) == SubSeq(s, i, Len(s))

\* str.startswith at position i (counted from 1)
StartsAt(s, i, p) ==
  /\ i + Len(p) - 1 <= Len(s)
  /\ SubSeq(s, i, i + Len(p) - 1) = p

\* str.endswith
endswith(s, p) == Len(p) <= Len(s) /\ SubSeq(s, Len(s) - Len(p) + 1, Len(s)) = p

\* p in s
Contains(s, p) == \E i \in 1..(Len(s) + 1) : StartsAt(s, i, p)

\* the smallest element of a non-empty set of integers
Min(S) == CHOOSE m \in S : \A n \in S : m <= n

----------------------------------------------------------------------------
(* String literals of the source *)

DOT_CSV == <<".", "c", "s", "v">>
DOT_XML == <<".", "x", "m", "l">>
EXT_CSV == <<"c", "s", "v">>
EXT_XML == <<"x", "m", "l">>
EXT_JSON == <<"j", "s", "o", "n">>
TRANSFORMED_JSON == <<"_", "t", "r", "a", "n", "s", "f", "o", "r", "m", "e", "d", ".", "j", "s", "o", "n">>
VALUE_SET_ == <<"V", "a", "l", "u", "e", " ", "S", "e", "t", " ">>
DE_CH == <<"d", "e", "-", "C", "H">>
EN_US == <<"e", "n", "-", "U", "S">>
FR_CH == <<"f", "r", "-", "C", "H">>
IT_CH == <<"i", "t", "-", "C", "H">>
RM_CH == <<"r", "m", "-", "C", "H">>
PREFERRED_TYPE == <<"p", "r", "e", "f", "e", "r", "r", "e", "d">>
SYNONYM_TYPE == <<"s", "y", "n", "o", "n", "y", "m">>
PREFERRED_TITLE == <<"P", "r", "e", "f", "e", "r", "r", "e", "d">>
ACCEPTABLE_TITLE == <<"A", "c", "c", "e", "p", "t", "a", "b", "l", "e">>
PREFERRED_ID == <<"9", "0", "0", "0", "0", "0", "0", "0", "0", "0", "0", "0", "5", "4", "8", "0", "0", "7">>
ACCEPTABLE_ID == <<"9", "0", "0", "0", "0", "0", "0", "0", "0", "0", "0", "0", "5", "4", "9", "0", "0", "4">>
TYPE_CODESYSTEM == <<"C", "o", "d", "e", "S", "y", "s", "t", "e", "m">>
TYPE_PERIOD == <<"P", "e", "r", "i", "o", "d">>
TYPE_DESIGNATION == <<"D", "e", "s", "i", "g", "n", "a", "t", "i", "o", "n">>
PERIOD_START == <<"s", "t", "a", "r", "t">>
PERIOD_END == <<"e", "n", "d">>
LEVEL_0 == <<"0">>
CONCEPTS_DIR == <<"C", "o", "n", "c", "e", "p", "t", "s">>
CODELISTS_DIR == <<"C", "o", "d", "e", "l", "i", "s", "t", "s">>

(* class Config *)
PUBLISHER_IDENTIFIER == <<"C", "H", "_", "e", "H", "e", "a", "l", "t", "h">>
PUBLISHER_NAME == <<"e", "H", "e", "a", "l", "t", "h", " ", "S", "u", "i", "s", "s", "e">>
DEFAULT_VERSION == <<"2", ".", "0", ".", "0">>
DEFAULT_CONCEPT_TYPE == <<"C", "o", "d", "e", "L", "i", "s", "t">>
DEFAULT_VALUE_TYPE == <<"S", "t", "r", "i", "n", "g">>
DEFAULT_VALUE_MAX_LENGTH == 30
DEFAULT_PERIOD_START == <<"2", "0", "2", "4", "-", "0", "6", "-", "0", "1">>
DEFAULT_PERIOD_END == <<"2", "1", "0", "0", "-", "0", "6", "-", "0", "1">>
DEFAULT_RESPONSIBLE_SHORT_NAME == <<"P", "G", "R">>
DEFAULT_RESPONSIBLE_EMAIL ==
  <<"p", "e", "r", "o", ".", "g", "r", "g", "i", "c", "@", "e", "-", "h", "e", "a", "l", "t", "h", "-", "s", "u", "i", "s", "s", "e", ".", "c", "h">>
DEFAULT_DEPUTY_SHORT_NAME == <<"S", "N", "E">>
DEFAULT_DEPUTY_EMAIL ==
  <<"s", "t", "e", "f", "a", "n", "i", "e", ".", "n", "e", "u", "e", "n", "s", "c", "h", "w", "a", "n", "d", "e", "r", "@", "e", "-", "h", "e", "a", "l", "t", "h", "-", "s", "u", "i", "s", "s", "e", ".", "c", "h">>

----------------------------------------------------------------------------
(* The data classes *)

\* class PublisherPersons: get_person(key) is persons.get(key, {})
get_person(key) ==
  IF key = DEFAULT_RESPONSIBLE_SHORT_NAME THEN [email |-> DEFAULT_RESPONSIBLE_EMAIL]
  ELSE IF key = DEFAULT_DEPUTY_SHORT_NAME THEN [email |-> DEFAULT_DEPUTY_EMAIL]
  ELSE [k \in {} |-> None]

\* class Code, as constructed
Code ==
  [Code |-> <<>>, DisplayNameEN |-> <<>>, DisplayNameDE |-> <<>>,
   DisplayNameFR |-> <<>>, DisplayNameIT |-> <<>>, DisplayNameRM |-> <<>>,
   parentCode |-> None, validFrom |-> None]

\* class CodeSystem, as constructed
CodeSystem ==
  [Title |-> None, Text_DE |-> None, Text_FR |-> None, Text_IT |-> None,
   Text_EN |-> None, Text_RM |-> None, Identifier |-> None, URI |-> None]

\* class Period, as constructed
Period(period_type) ==
  [Title |-> period_type, Date |-> None, Identifier |-> period_type, URI |-> None]

\* class Synonym, as constructed
Synonym(title) ==
  [Title |-> title, Text_DE |-> <<>>, Text_FR |-> <<>>, Text_IT |-> <<>>,
   Text_EN |-> <<>>, Text_RM |-> <<>>,
   identifier |-> IF title = PREFERRED_TITLE THEN PREFERRED_ID ELSE ACCEPTABLE_ID,
   URI |-> None]

\* class concept, as constructed
concept ==
  [descriptionDE |-> None, descriptionEN |-> None, descriptionFR |-> None,
   descriptionIT |-> None, descriptionRM |-> None, id |-> None,
   identifier |-> None, name |-> None, validFrom |-> None,
   version |-> DEFAULT_VERSION]

----------------------------------------------------------------------------
(* The JSON serializer *)

LangKeys == {"de", "en", "fr", "it", "rm"}

\* the Text_XX attribute of a Synonym or CodeSystem behind a JSON language key
TextOf(obj, k) ==
  CASE k = "de" -> obj.Text_DE
    [] k = "en" -> obj.Text_EN
    [] k = "fr" -> obj.Text_FR
    [] k = "it" -> obj.Text_IT
    [] k = "rm" -> obj.Text_RM

\* the DisplayNameXX attribute of a Code behind a JSON language key
DisplayNameOf(code, k) ==
  CASE k = "de" -> code.DisplayNameDE
    [] k = "en" -> code.DisplayNameEN
    [] k = "fr" -> code.DisplayNameFR
    [] k = "it" -> code.DisplayNameIT
    [] k = "rm" -> code.DisplayNameRM

\* create_concept_output
create_concept_output(self) ==
  [data |->
    [codeListEntryValueMaxLength |-> DEFAULT_VALUE_MAX_LENGTH,
     codeListEntryValueType |-> DEFAULT_VALUE_TYPE,
     conceptType |-> DEFAULT_CONCEPT_TYPE,
     conformsTo |-> <<>>,
     description |-> [de |-> self.concept.descriptionDE,
                      en |-> self.concept.descriptionEN,
                      fr |-> self.concept.descriptionFR,
                      it |-> self.concept.descriptionIT],
     identifier |-> self.concept.identifier,
     keywords |-> <<>>,
     name |-> [de |-> self.concept.name, en |-> self.concept.name,
               fr |-> self.concept.name, it |-> self.concept.name],
     publisher |-> [identifier |-> PUBLISHER_IDENTIFIER,
                    name |-> [de |-> PUBLISHER_NAME, en |-> PUBLISHER_NAME,
                              fr |-> PUBLISHER_NAME, it |-> PUBLISHER_NAME]],
     responsiblePerson |-> self.responsible_person,
     responsibleDeputy |-> self.deputy_person,
     themes |-> <<>>,
     validFrom |-> self.concept.validFrom,
     version |-> self.version]]

\* create_codeListEntries_output: the CodeSystem annotation
code_system_annotation(codeSystem) ==
  [identifier |-> codeSystem.Identifier,
   text |-> [k \in LangKeys |-> TextOf(codeSystem, k)],
   title |-> codeSystem.Title,
   type |-> TYPE_CODESYSTEM]

\* create_codeListEntries_output: a Period annotation
period_annotation(period) ==
  [identifier |-> period.Identifier,
   text |-> [en |-> period.Date],
   title |-> period.Title,
   type |-> TYPE_PERIOD]

\* preferred_annotation with the empty texts dropped, as for Acceptable
preferred_annotation_pruned(synonymPS) ==
  [identifier |-> synonymPS.identifier,
   text |-> [k \in {l \in LangKeys : Truthy(TextOf(synonymPS, l))}
               |-> TextOf(synonymPS, k)],
   title |-> synonymPS.Title,
   type |-> TYPE_DESIGNATION]

\* create_codeListEntries_output: the Preferred designation
preferred_annotation(synonymPS) ==
  [identifier |-> synonymPS.identifier,
   text |-> [k \in LangKeys |-> TextOf(synonymPS, k)],
   title |-> synonymPS.Title,
   type |-> TYPE_DESIGNATION]

\* base_annotations with the start of the period before its end
base_annotations_start_first(codeSystem, periodStart, periodEnd, synonymPS) ==
  << code_system_annotation(codeSystem),
     period_annotation(periodStart),
     period_annotation(periodEnd),
     preferred_annotation(synonymPS) >>

\* create_codeListEntries_output: the four annotations every entry gets
base_annotations(codeSystem, periodStart, periodEnd, synonymPS) ==
  << code_system_annotation(codeSystem),
     period_annotation(periodEnd),
     period_annotation(periodStart),
     preferred_annotation(synonymPS) >>

\* text_dict without the strip(): a blank text is kept
text_dict_unstripped(synonymAS) ==
  [k \in {l \in LangKeys : Truthy(TextOf(synonymAS, l))} |-> TextOf(synonymAS, k)]

\* create_codeListEntries_output: text_dict of the Acceptable designation
text_dict(synonymAS) ==
  [k \in {l \in LangKeys : /\ Truthy(TextOf(synonymAS, l))
                           /\ Truthy(strip(TextOf(synonymAS, l)))}
     |-> TextOf(synonymAS, k)]

\* create_codeListEntries_output: the Acceptable designation, appended when
\* text_dict is not empty
acceptable_annotations(synonymAS) ==
  IF DOMAIN text_dict(synonymAS) # {}
  THEN << [identifier |-> synonymAS.identifier,
           text |-> text_dict(synonymAS),
           title |-> synonymAS.Title,
           type |-> TYPE_DESIGNATION] >>
  ELSE << >>

\* parent_key testing "is not None" instead of truth: an empty code is emitted
parent_key_not_none(code) ==
  IF code.parentCode # None THEN [parentCode |-> code.parentCode]
  ELSE [k \in {} |-> None]

\* create_codeListEntries_output: the optional parentCode key
parent_key(code) ==
  IF Truthy(code.parentCode) THEN [parentCode |-> code.parentCode]
  ELSE [k \in {} |-> None]

\* create_codeListEntries_output: one json_entry
json_entry(entry_list) ==
  LET code == entry_list[1]
      codeSystem == entry_list[2]
      periodStart == entry_list[3]
      periodEnd == entry_list[4]
      synonymPS == entry_list[5]
  IN [annotations |-> base_annotations(codeSystem, periodStart, periodEnd, synonymPS)
                        \o (IF Len(entry_list) > 5
                            THEN acceptable_annotations(entry_list[6])
                            ELSE << >>),
      code |-> code.Code,
      name |-> [k \in LangKeys |-> DisplayNameOf(code, k)],
      validFrom |-> code.validFrom]
     @@ parent_key(code)

\* create_codeListEntries_output
create_codeListEntries_output(self, codeListEntries) ==
  [data |-> [i \in 1..Len(codeListEntries) |-> json_entry(codeListEntries[i])]]

\* write_to_json with the number of files found in the output folder written
\* into the concept document
write_to_json_counting(self, files) ==
  (self.json_output_file_path_codelists
     :> create_codeListEntries_output(self, self.codeListEntries))
  @@ (self.json_output_file_path_concepts
        :> [data |-> [create_concept_output(self).data EXCEPT
                        !.codeListEntryValueMaxLength = Cardinality(DOMAIN files)]])
  @@ files

\* write_to_json: the concept document, then the codelist-entries document
write_to_json(self, files) ==
  LET afterConcept ==
        (self.json_output_file_path_concepts :> create_concept_output(self)) @@ files
  IN (self.json_output_file_path_codelists
        :> create_codeListEntries_output(self, self.codeListEntries)) @@ afterConcept

----------------------------------------------------------------------------
(* The concept lookup (I14yApiClient) *)

\* _make_request returns None when the request failed, else the response's
\* JSON: ok is FALSE for None; data is the value of the "data" key, empty
\* when the key is missing
RequestFailed == [ok |-> FALSE, data |-> << >>]

\* get_concepts: len(result.get('data', [])) is evaluated on the result of
\* _make_request also when that result is None
get_concepts(response) ==
  IF ~response.ok THEN [raised |-> "AttributeError", result |-> response]
  ELSE [raised |-> "ok", result |-> response]

\* get_concept_by_identifier
get_concept_by_identifier(concept_identifier, response) == get_concepts(response)

----------------------------------------------------------------------------
(* The parsers *)

\* AD_csv_to_i14y_json.__init__
AD_csv_to_i14y_json(file_path, output_file_path, file_name, responsible_key, deputy_key, validFrom, new_concept, version) ==
  [file_path |-> file_path,
   json_output_file_path_concepts |-> output_file_path,
   json_output_file_path_codelists |-> output_file_path,
   codeListEntries |-> << >>,
   fileExtension |-> None,
   concept |-> concept,
   fileName |-> file_name,
   responsible_person |-> get_person(responsible_key),
   deputy_person |-> get_person(deputy_key),
   new_concept |-> new_concept,
   validFrom |-> validFrom,
   version |-> IF Truthy(version) THEN version ELSE <<"1", ".", "0", ".", "0">>,
   isParent |-> None]

\* lookup_branch that does not mark the concept as new when nothing is found
lookup_branch_unmarked(st, full_concept) ==
  IF full_concept.ok /\ full_concept.data # << >> /\ Truthy(full_concept.data[1].id)
  THEN [st EXCEPT !.concept_instance.id = full_concept.data[1].id]
  ELSE st

\* lookup_branch that lets the lookup alone decide new_concept
lookup_branch_decides(st, full_concept) ==
  IF full_concept.ok /\ full_concept.data # << >> /\ Truthy(full_concept.data[1].id)
  THEN [st EXCEPT !.concept_instance.id = full_concept.data[1].id,
                  !.new_concept = FALSE]
  ELSE [st EXCEPT !.new_concept = TRUE]

\* process_csv / process_xml: what the parser does with the lookup's result;
\* st is [concept_instance, new_concept]
lookup_branch(st, full_concept) ==
  IF full_concept.ok /\ full_concept.data # << >>
  THEN LET clean_concept == full_concept.data[1]
           id == clean_concept.id
       IN IF Truthy(id)
          THEN [st EXCEPT !.concept_instance.id = id]
          ELSE [st EXCEPT !.new_concept = TRUE]
  ELSE [st EXCEPT !.new_concept = TRUE]

\* process_xml: code_system_mapping.get(id), the mapping being built from the
\* sourceCodeSystem elements in document order (a later id overwrites)
RECURSIVE code_system_mapping_get(_, _)
code_system_mapping_get(sourceCodeSystems, id) ==
  IF sourceCodeSystems = << >> THEN None
  ELSE LET last == sourceCodeSystems[Len(sourceCodeSystems)]
       IN IF last.id = id THEN last.identifierName
          ELSE code_system_mapping_get(
                 SubSeq(sourceCodeSystems, 1, Len(sourceCodeSystems) - 1), id)

\* process_xml: the loop over the desc elements
RECURSIVE xml_descs(_, _)
xml_descs(descs, concept_instance) ==
  IF descs = << >> THEN [raised |-> "ok", concept_instance |-> concept_instance]
  ELSE LET desc == Head(descs)
           raw == IF desc.hasDiv THEN desc.divText ELSE desc.text
       IN IF raw = None
          THEN [raised |-> "AttributeError", concept_instance |-> concept_instance]
          ELSE LET text == strip(raw)
                   lang == desc.language
               IN xml_descs(Tail(descs),
                    IF lang = DE_CH THEN [concept_instance EXCEPT !.descriptionDE = text]
                    ELSE IF lang = EN_US THEN [concept_instance EXCEPT !.descriptionEN = text]
                    ELSE IF lang = FR_CH THEN [concept_instance EXCEPT !.descriptionFR = text]
                    ELSE IF lang = IT_CH THEN [concept_instance EXCEPT !.descriptionIT = text]
                    ELSE concept_instance)

\* track_parent with every concept element remembered as the current parent
track_parent_every(st, concept_elem) ==
  IF concept_elem.level = LEVEL_0
  THEN [st EXCEPT !.isParent = concept_elem.code]
  ELSE [st EXCEPT !.code.parentCode = st.isParent, !.isParent = concept_elem.code]

\* process_xml: parent tracking of one concept element;
\* st is [code, isParent]
track_parent(st, concept_elem) ==
  IF concept_elem.level = LEVEL_0
  THEN [st EXCEPT !.isParent = concept_elem.code]
  ELSE [st EXCEPT !.code.parentCode = st.isParent]

\* apply_designation with the English display name overwritten like the others
apply_designation_en_named(st, designation) ==
  LET lang == designation.language
      text == designation.displayName
      desig_type == designation.type
  IN IF desig_type = PREFERRED_TYPE
     THEN IF lang = DE_CH
          THEN [st EXCEPT !.synonymPS.Text_DE = text, !.code.DisplayNameDE = text]
          ELSE IF lang = EN_US
          THEN [st EXCEPT !.synonymPS.Text_EN = text, !.code.DisplayNameEN = text]
          ELSE IF lang = FR_CH
          THEN [st EXCEPT !.synonymPS.Text_FR = text, !.code.DisplayNameFR = text]
          ELSE IF lang = IT_CH
          THEN [st EXCEPT !.synonymPS.Text_IT = text, !.code.DisplayNameIT = text]
          ELSE IF lang = RM_CH
          THEN [st EXCEPT !.synonymPS.Text_RM = text, !.code.DisplayNameRM = text]
          ELSE st
     ELSE IF desig_type = SYNONYM_TYPE
     THEN IF lang = DE_CH THEN [st EXCEPT !.synonymAS.Text_DE = text]
          ELSE IF lang = EN_US THEN [st EXCEPT !.synonymAS.Text_EN = text]
          ELSE IF lang = FR_CH THEN [st EXCEPT !.synonymAS.Text_FR = text]
          ELSE IF lang = IT_CH THEN [st EXCEPT !.synonymAS.Text_IT = text]
          ELSE IF lang = RM_CH THEN [st EXCEPT !.synonymAS.Text_RM = text]
          ELSE st
     ELSE st

\* process_xml: one designation element; st is [code, synonymPS, synonymAS]
apply_designation(st, designation) ==
  LET lang == designation.language
      text == designation.displayName
      desig_type == designation.type
  IN IF desig_type = PREFERRED_TYPE
     THEN IF lang = DE_CH
          THEN [st EXCEPT !.synonymPS.Text_DE = text, !.code.DisplayNameDE = text]
          ELSE IF lang = EN_US
          THEN [st EXCEPT !.synonymPS.Text_EN = text]
          ELSE IF lang = FR_CH
          THEN [st EXCEPT !.synonymPS.Text_FR = text, !.code.DisplayNameFR = text]
          ELSE IF lang = IT_CH
          THEN [st EXCEPT !.synonymPS.Text_IT = text, !.code.DisplayNameIT = text]
          ELSE IF lang = RM_CH
          THEN [st EXCEPT !.synonymPS.Text_RM = text, !.code.DisplayNameRM = text]
          ELSE st
     ELSE IF desig_type = SYNONYM_TYPE
     THEN IF lang = DE_CH THEN [st EXCEPT !.synonymAS.Text_DE = text]
          ELSE IF lang = EN_US THEN [st EXCEPT !.synonymAS.Text_EN = text]
          ELSE IF lang = FR_CH THEN [st EXCEPT !.synonymAS.Text_FR = text]
          ELSE IF lang = IT_CH THEN [st EXCEPT !.synonymAS.Text_IT = text]
          ELSE IF lang = RM_CH THEN [st EXCEPT !.synonymAS.Text_RM = text]
          ELSE st
     ELSE st

\* process_xml: the loop over the designation elements of one concept element
RECURSIVE apply_designations(_, _)
apply_designations(st, designations) ==
  IF designations = << >> THEN st
  ELSE apply_designations(apply_designation(st, Head(designations)), Tail(designations))

\* process_xml: the entry appended for one concept element, from the Code and
\* the synonyms (st), the code-system name and the code-system id
xml_entry_list(st, csName, code_system_id) ==
  << st.code,
     [CodeSystem EXCEPT !.Title = csName, !.Text_EN = csName, !.Text_DE = csName,
                        !.Text_FR = csName, !.Text_IT = csName, !.Text_RM = csName,
                        !.Identifier = code_system_id],
     [Period(PERIOD_START) EXCEPT !.Date = DEFAULT_PERIOD_START],
     [Period(PERIOD_END) EXCEPT !.Date = DEFAULT_PERIOD_END],
     st.synonymPS,
     st.synonymAS >>

\* process_xml: the Code of a concept element as first filled: every display
\* name is the displayName attribute
xml_code(concept_elem, validFrom) ==
  [Code EXCEPT !.Code = concept_elem.code,
               !.validFrom = validFrom,
               !.DisplayNameDE = concept_elem.displayName,
               !.DisplayNameEN = concept_elem.displayName,
               !.DisplayNameFR = concept_elem.displayName,
               !.DisplayNameIT = concept_elem.displayName,
               !.DisplayNameRM = concept_elem.displayName]

\* process_xml: the designations and the code system of a concept element
\* whose parent is tracked; the result is the entry and the new self.isParent
xml_tracked(tracked, concept_elem, sourceCodeSystems) ==
  [entry |-> xml_entry_list(
               apply_designations([code |-> tracked.code,
                                   synonymPS |-> Synonym(PREFERRED_TITLE),
                                   synonymAS |-> Synonym(ACCEPTABLE_TITLE)],
                                  concept_elem.designations),
               code_system_mapping_get(sourceCodeSystems, concept_elem.codeSystem),
               concept_elem.codeSystem),
   isParent |-> tracked.isParent]

\* process_xml: the body of the loop over the concept elements
xml_entry(concept_elem, isParent, validFrom, sourceCodeSystems) ==
  xml_tracked(track_parent([code |-> xml_code(concept_elem, validFrom),
                            isParent |-> isParent], concept_elem),
              concept_elem, sourceCodeSystems)

\* process_xml: one turn of the loop over the concept elements;
\* st is [codeListEntries, isParent], r the result of the loop body
xml_append(st, r) ==
  [codeListEntries |-> Append(st.codeListEntries, r.entry), isParent |-> r.isParent]

\* process_xml: the loop over the concept elements, in document order
RECURSIVE xml_concepts(_, _, _, _)
xml_concepts(st, concept_elems, validFrom, sourceCodeSystems) ==
  IF concept_elems = << >> THEN st
  ELSE xml_concepts(
         xml_append(st, xml_entry(Head(concept_elems), st.isParent, validFrom,
                                  sourceCodeSystems)),
         Tail(concept_elems), validFrom, sourceCodeSystems)

\* what a parser returns to main: the transformer as the parser left it, the
\* exception that ended it ("ok" when it returned) and the lookups it made
Outcome(self, raised, lookups) == [self |-> self, raised |-> raised, lookups |-> lookups]

\* process_xml: after the loop over the concept elements; self.concept is
\* assigned in the loop body
xml_finish(self, value_set, concept_instance, loop, lookups) ==
  Outcome([self EXCEPT !.isParent = loop.isParent,
                       !.codeListEntries = loop.codeListEntries,
                       !.concept = IF value_set.concepts = << >> THEN @
                                   ELSE concept_instance],
          "ok", lookups)

\* xml_after_descs without the reset of self.isParent before the loop
xml_after_descs_unreset(self, value_set, d, lookups) ==
  IF d.raised # "ok" THEN Outcome(self, d.raised, lookups)
  ELSE xml_finish(self, value_set, d.concept_instance,
                  xml_concepts([codeListEntries |-> self.codeListEntries,
                                isParent |-> self.isParent],
                               value_set.concepts, self.validFrom,
                               value_set.sourceCodeSystems),
                  lookups)

\* process_xml: after the loop over the desc elements (d is its result)
xml_after_descs(self, value_set, d, lookups) ==
  IF d.raised # "ok" THEN Outcome(self, d.raised, lookups)
  ELSE xml_finish(self, value_set, d.concept_instance,
                  xml_concepts([codeListEntries |-> self.codeListEntries,
                                isParent |-> None],
                               value_set.concepts, self.validFrom,
                               value_set.sourceCodeSystems),
                  lookups)

\* process_xml: after the lookup branch (b is its result)
xml_after_branch(self, value_set, b, lookups) ==
  xml_after_descs([self EXCEPT !.new_concept = b.new_concept], value_set,
                  xml_descs(value_set.descs,
                            [b.concept_instance EXCEPT
                               !.identifier = value_set.id,
                               !.validFrom = self.validFrom]),
                  lookups)

\* process_xml: after get_concept_by_identifier (looked is its result)
xml_after_lookup(self, value_set, looked, lookups) ==
  IF looked.raised # "ok" THEN Outcome(self, looked.raised, lookups)
  ELSE xml_after_branch(self, value_set,
         lookup_branch([concept_instance |-> [concept EXCEPT !.name = value_set.name],
                        new_concept |-> self.new_concept],
                       looked.result),
         lookups)

\* process_xml
process_xml(self, file, response) ==
  IF ~file.wellformed
  THEN Outcome([self EXCEPT !.fileExtension = EXT_XML], "ParseError", << >>)
  ELSE IF ~file.hasValueSet
  THEN Outcome([self EXCEPT !.fileExtension = EXT_XML], "AttributeError", << >>)
  ELSE xml_after_lookup([self EXCEPT !.fileExtension = EXT_XML], file.valueSet,
                        get_concept_by_identifier(file.valueSet.id, response),
                        << [identifier |-> file.valueSet.id, response |-> response] >>)

----------------------------------------------------------------------------
(* process_csv *)

\* an index that next(..., None) left at None
NoIndex == -1

\* re.search(r'Value Set (.*?) -', first_row): the starts i of "Value Set "
\* from which a " -" follows on the same line
NameStarts(first_row) ==
  {i \in 1..Len(first_row) :
     /\ StartsAt(first_row, i, VALUE_SET_)
     /\ \E j \in (i + Len(VALUE_SET_))..Len(first_row) :
          /\ StartsAt(first_row, j, <<" ", "-">>)
          /\ \A k \in (i + Len(VALUE_SET_))..(j - 1) : first_row[k] # "\n"}

\* name_match.group(1), None when the pattern does not match: the leftmost
\* match, its group as short as possible
name_match(first_row) ==
  IF NameStarts(first_row) = {} THEN None
  ELSE LET i == Min(NameStarts(first_row))
           b == i + Len(VALUE_SET_)
           j == Min({j \in b..Len(first_row) : StartsAt(first_row, j, <<" ", "-">>)})
       IN SubSeq(first_row, b, j - 1)

\* the longest prefix of s made of digits and dots
RECURSIVE OidRun(_)
OidRun(s) ==
  IF s = << >> THEN << >>
  ELSE IF Head(s) \in Digits \cup {"."} THEN <<Head(s)>> \o OidRun(Tail(s))
  ELSE << >>

\* re.search(r'- ([\d.]+)', first_row): the starts of "- " followed by at
\* least one digit or dot
IdentifierStarts(first_row) ==
  {i \in 1..Len(first_row) :
     /\ StartsAt(first_row, i, <<"-", " ">>)
     /\ OidRun(From(first_row, i + 2)) # << >>}

\* identifier_match.group(1), None when the pattern does not match
identifier_match(first_row) ==
  IF IdentifierStarts(first_row) = {} THEN None
  ELSE OidRun(From(first_row, Min(IdentifierStarts(first_row)) + 2))

\* resolve_index with the last matching column instead of the first
resolve_index_last(index_row, lang, kind) ==
  LET hits == {i \in 0..(Len(index_row) - 1) :
                 Contains(index_row[i + 1], lang) /\ Contains(index_row[i + 1], kind)}
  IN IF hits = {} THEN NoIndex ELSE CHOOSE m \in hits : \A n \in hits : n <= m

\* next((i for i, x in enumerate(index_row) if lang in x and kind in x), None),
\* the index counted from 0
resolve_index(index_row, lang, kind) ==
  LET hits == {i \in 0..(Len(index_row) - 1) :
                 Contains(index_row[i + 1], lang) /\ Contains(index_row[i + 1], kind)}
  IN IF hits = {} THEN NoIndex ELSE Min(hits)

\* process_csv: the ten indexes read from the second row
resolve_indexes(index_row) ==
  [DEps |-> resolve_index(index_row, DE_CH, PREFERRED_TYPE),
   ENps |-> resolve_index(index_row, EN_US, PREFERRED_TYPE),
   ITps |-> resolve_index(index_row, IT_CH, PREFERRED_TYPE),
   RMps |-> resolve_index(index_row, RM_CH, PREFERRED_TYPE),
   FRps |-> resolve_index(index_row, FR_CH, PREFERRED_TYPE),
   DEas |-> resolve_index(index_row, DE_CH, SYNONYM_TYPE),
   ENas |-> resolve_index(index_row, EN_US, SYNONYM_TYPE),
   ITas |-> resolve_index(index_row, IT_CH, SYNONYM_TYPE),
   RMas |-> resolve_index(index_row, RM_CH, SYNONYM_TYPE),
   FRas |-> resolve_index(index_row, FR_CH, SYNONYM_TYPE)]

\* row[i] of a list, i counted from 0
At(row, i) == row[i + 1]

\* the indexes the loop body reads of a row
ReadIndexes(ix) ==
  {2, 3, 4, 5} \cup ({ix[k] : k \in DOMAIN ix} \ {NoIndex})

\* x when the index is None, else row[index]
SetIf(index, row, x) == IF index # NoIndex THEN At(row, index) ELSE x

\* csv_code with the code trimmed
csv_code_stripped(row, ix, validFrom) ==
  [Code EXCEPT !.Code = strip(At(row, 2)),
               !.DisplayNameEN = At(row, 3),
               !.validFrom = validFrom,
               !.DisplayNameDE = SetIf(ix.DEps, row, @),
               !.DisplayNameFR = SetIf(ix.FRps, row, @),
               !.DisplayNameIT = SetIf(ix.ITps, row, @),
               !.DisplayNameRM = SetIf(ix.RMps, row, @)]

\* process_csv: the Code of a data row
csv_code(row, ix, validFrom) ==
  [Code EXCEPT !.Code = At(row, 2),
               !.DisplayNameEN = At(row, 3),
               !.validFrom = validFrom,
               !.DisplayNameDE = SetIf(ix.DEps, row, @),
               !.DisplayNameFR = SetIf(ix.FRps, row, @),
               !.DisplayNameIT = SetIf(ix.ITps, row, @),
               !.DisplayNameRM = SetIf(ix.RMps, row, @)]

\* csv_code_system with the columns of the name and the identifier exchanged
csv_code_system_exchanged(row) ==
  [CodeSystem EXCEPT !.Title = At(row, 4), !.Text_DE = At(row, 4),
                     !.Text_FR = At(row, 4), !.Text_IT = At(row, 4),
                     !.Text_EN = At(row, 4), !.Text_RM = At(row, 4),
                     !.Identifier = At(row, 5)]

\* process_csv: the CodeSystem of a data row
csv_code_system(row) ==
  [CodeSystem EXCEPT !.Title = At(row, 5), !.Text_DE = At(row, 5),
                     !.Text_FR = At(row, 5), !.Text_IT = At(row, 5),
                     !.Text_EN = At(row, 5), !.Text_RM = At(row, 5),
                     !.Identifier = At(row, 4)]

\* process_csv: the Preferred synonym of a data row
csv_synonymPS(row, ix) ==
  [Synonym(PREFERRED_TITLE) EXCEPT
     !.Text_EN = SetIf(ix.ENps, row, @), !.Text_DE = SetIf(ix.DEps, row, @),
     !.Text_FR = SetIf(ix.FRps, row, @), !.Text_IT = SetIf(ix.ITps, row, @),
     !.Text_RM = SetIf(ix.RMps, row, @)]

\* process_csv: the Acceptable synonym of a data row
csv_synonymAS(row, ix) ==
  [Synonym(ACCEPTABLE_TITLE) EXCEPT
     !.Text_EN = SetIf(ix.ENas, row, @), !.Text_DE = SetIf(ix.DEas, row, @),
     !.Text_FR = SetIf(ix.FRas, row, @), !.Text_IT = SetIf(ix.ITas, row, @),
     !.Text_RM = SetIf(ix.RMas, row, @)]

\* csv_entry with a short row filled up with empty values
csv_entry_padded(row, ix, validFrom) ==
  [raised |-> "ok",
   entry |-> << csv_code(row \o [i \in 1..8 |-> << >>], ix, validFrom),
                csv_code_system(row \o [i \in 1..8 |-> << >>]),
                [Period(PERIOD_START) EXCEPT !.Date = DEFAULT_PERIOD_START],
                [Period(PERIOD_END) EXCEPT !.Date = DEFAULT_PERIOD_END],
                csv_synonymPS(row \o [i \in 1..8 |-> << >>], ix),
                csv_synonymAS(row \o [i \in 1..8 |-> << >>], ix) >>]

\* process_csv: the body of the loop over the data rows: IndexError when the
\* row is shorter than an index read, else the entry appended
csv_entry(row, ix, validFrom) ==
  IF \E i \in ReadIndexes(ix) : i >= Len(row)
  THEN [raised |-> "IndexError", entry |-> << >>]
  ELSE [raised |-> "ok",
        entry |-> << csv_code(row, ix, validFrom),
                     csv_code_system(row),
                     [Period(PERIOD_START) EXCEPT !.Date = DEFAULT_PERIOD_START],
                     [Period(PERIOD_END) EXCEPT !.Date = DEFAULT_PERIOD_END],
                     csv_synonymPS(row, ix),
                     csv_synonymAS(row, ix) >>]

\* process_csv: one turn of the loop over the data rows;
\* st is [raised, codeListEntries], r the result of the loop body
csv_append(st, r) ==
  IF r.raised # "ok" THEN [st EXCEPT !.raised = r.raised]
  ELSE [st EXCEPT !.codeListEntries = Append(@, r.entry)]

\* process_csv: the loop over the data rows, ended by the first exception
RECURSIVE csv_rows(_, _, _, _)
csv_rows(st, rows, ix, validFrom) ==
  IF rows = << >> \/ st.raised # "ok" THEN st
  ELSE csv_rows(csv_append(st, csv_entry(Head(rows), ix, validFrom)),
                Tail(rows), ix, validFrom)

\* process_csv: after the loop over the data rows; self.concept is assigned
\* in the loop body, after the entry is appended
csv_finish(self, concept_instance, loop, lookups) ==
  Outcome([self EXCEPT !.codeListEntries = loop.codeListEntries,
                       !.concept = IF loop.codeListEntries = << >> THEN @
                                   ELSE [concept_instance EXCEPT
                                           !.validFrom = self.validFrom]],
          loop.raised, lookups)

\* process_csv: after the lookup branch (b is its result): the second row and
\* the data rows
csv_after_branch(self, rows, b, lookups) ==
  IF Len(rows) < 2
  THEN Outcome([self EXCEPT !.new_concept = b.new_concept], "StopIteration", lookups)
  ELSE csv_finish([self EXCEPT !.new_concept = b.new_concept], b.concept_instance,
                  csv_rows([raised |-> "ok", codeListEntries |-> self.codeListEntries],
                           SubSeq(rows, 3, Len(rows)), resolve_indexes(rows[2]),
                           self.validFrom),
                  lookups)

\* process_csv: the concept instance with the name and the identifier read
\* from the first row
csv_concept(name, oid) ==
  [concept EXCEPT !.name = IF name # None THEN name ELSE @,
                  !.identifier = IF oid # None THEN oid ELSE @]

\* process_csv: after the first row is read: the lookup, made when an
\* identifier was found
csv_after_first_row(self, rows, name, oid, response) ==
  IF oid = None
  THEN csv_after_branch(self, rows,
                        [concept_instance |-> csv_concept(name, oid),
                         new_concept |-> self.new_concept],
                        << >>)
  ELSE IF get_concept_by_identifier(oid, response).raised # "ok"
  THEN Outcome(self, get_concept_by_identifier(oid, response).raised,
               << [identifier |-> oid, response |-> response] >>)
  ELSE csv_after_branch(self, rows,
                        lookup_branch([concept_instance |-> csv_concept(name, oid),
                                       new_concept |-> self.new_concept],
                                      get_concept_by_identifier(oid, response).result),
                        << [identifier |-> oid, response |-> response] >>)

\* process_csv that returns without an entry when the file has no row
process_csv_lenient(self, file, response) ==
  IF file.rows = << >>
  THEN Outcome([self EXCEPT !.fileExtension = EXT_CSV], "ok", << >>)
  ELSE IF file.rows[1] = << >>
  THEN Outcome([self EXCEPT !.fileExtension = EXT_CSV], "IndexError", << >>)
  ELSE csv_after_first_row([self EXCEPT !.fileExtension = EXT_CSV], file.rows,
                           name_match(file.rows[1][1]),
                           identifier_match(file.rows[1][1]), response)

\* process_csv
process_csv(self, file, response) ==
  IF file.rows = << >>
  THEN Outcome([self EXCEPT !.fileExtension = EXT_CSV], "StopIteration", << >>)
  ELSE IF file.rows[1] = << >>
  THEN Outcome([self EXCEPT !.fileExtension = EXT_CSV], "IndexError", << >>)
  ELSE csv_after_first_row([self EXCEPT !.fileExtension = EXT_CSV], file.rows,
                           name_match(file.rows[1][1]),
                           identifier_match(file.rows[1][1]), response)

----------------------------------------------------------------------------
(* process_filename *)

\* str.lower() of the letters of the three extensions
LowerChar(c) ==
  CASE c = "C" -> "c" [] c = "S" -> "s" [] c = "V" -> "v"
    [] c = "X" -> "x" [] c = "M" -> "m" [] c = "L" -> "l"
    [] c = "J" -> "j" [] c = "O" -> "o" [] c = "N" -> "n"
    [] OTHER -> c

Lower(s) == [i \in 1..Len(s) |-> LowerChar(s[i])]

\* the number of whitespace characters s starts with
RECURSIVE WsRun(_)
WsRun(s) ==
  IF s = << >> THEN 0
  ELSE IF Head(s) \in Whitespace THEN 1 + WsRun(Tail(s)) ELSE 0

\* the length of the match of \s*\([^)]*\) at the start of s, 0 for no match
ParenMatch(s) ==
  LET w == WsRun(s)
      closes == {c \in (w + 2)..Len(s) : s[c] = ")"}
  IN IF w < Len(s) /\ s[w + 1] = "(" /\ closes # {} THEN Min(closes) ELSE 0

\* re.sub(r'\s*\([^)]*\)', '', s)
RECURSIVE sub_parenthesized(_)
sub_parenthesized(s) ==
  IF s = << >> THEN << >>
  ELSE IF ParenMatch(s) > 0 THEN sub_parenthesized(From(s, ParenMatch(s) + 1))
  ELSE <<Head(s)>> \o sub_parenthesized(Tail(s))

\* the newline a string ends with: '$' also matches just before it
FinalNewline(s) == IF s # << >> /\ s[Len(s)] = "\n" THEN <<"\n">> ELSE << >>

\* s without the newline it ends with
BeforeFinalNewline(s) == SubSeq(s, 1, Len(s) - Len(FinalNewline(s)))

\* s without the extension it ends with
drop_extension(s) ==
  IF \E e \in {EXT_CSV, EXT_XML, EXT_JSON} : endswith(Lower(s), <<".">> \o e)
  THEN LET e == CHOOSE e \in {EXT_CSV, EXT_XML, EXT_JSON} :
                  endswith(Lower(s), <<".">> \o e)
       IN SubSeq(s, 1, Len(s) - Len(e) - 1)
  ELSE s

\* re.sub(r'\.(csv|xml|json)$', '', s, flags=re.IGNORECASE)
sub_extension(s) ==
  IF drop_extension(s) # s THEN drop_extension(s)
  ELSE drop_extension(BeforeFinalNewline(s)) \o FinalNewline(s)

\* re.sub(r'^VS[ _]', '', s)
sub_vs_prefix(s) ==
  IF StartsAt(s, 1, <<"V", "S", " ">>) \/ StartsAt(s, 1, <<"V", "S", "_">>)
  THEN From(s, 4) ELSE s

\* s without the underscores it ends with
RECURSIVE drop_underscores(_)
drop_underscores(s) ==
  IF s # << >> /\ s[Len(s)] = "_"
  THEN drop_underscores(SubSeq(s, 1, Len(s) - 1)) ELSE s

\* re.sub(r'_+$', '', s)
sub_trailing_underscores(s) ==
  drop_underscores(BeforeFinalNewline(s)) \o FinalNewline(s)

\* process_filename with the trailing underscores removed first
process_filename_underscores_first(filename) ==
  strip(sub_vs_prefix(sub_extension(sub_parenthesized(
          sub_trailing_underscores(filename)))))

\* process_filename
process_filename(filename) ==
  strip(sub_trailing_underscores(sub_vs_prefix(sub_extension(
          sub_parenthesized(filename)))))

----------------------------------------------------------------------------
(* main *)

\* sys.argv[1..6]
responsible_key == DEFAULT_RESPONSIBLE_SHORT_NAME
deputy_key == DEFAULT_DEPUTY_SHORT_NAME
input_folder == <<"i", "n">>
output_folder == <<"o", "u", "t">>
date_valid_from == <<"2", "0", "2", "5", "-", "0", "1", "-", "0", "1">>
version == <<"2", ".", "0", ".", "3">>

\* os.path.join
join(a, b) == a \o <<"/">> \o b

\* filename.endswith(('.csv', '.xml'))
IsInput(filename) == endswith(filename, DOT_CSV) \/ endswith(filename, DOT_XML)

\* main: the parser the extension selects
parse(self, file, response) ==
  IF endswith(file.filename, DOT_CSV) THEN process_csv(self, file, response)
  ELSE process_xml(self, file, response)

\* main: new_filename
new_filename(concept_name, concept_id) ==
  IF Truthy(concept_id)
  THEN concept_name \o <<"_">> \o concept_id \o TRANSFORMED_JSON
  ELSE concept_name \o TRANSFORMED_JSON

\* iteration_files with the exception caught after the output is written
iteration_files_always(self, raised, files) == write_to_json(self, files)

\* main: the files after an iteration whose parser ended with raised: the
\* exception leaves main before write_to_json
iteration_files(self, raised, files) ==
  IF raised # "ok" THEN files ELSE write_to_json(self, files)

\* main: the loop position and state after an iteration: an exception is not
\* caught, it ends main
iteration_next(raised, position) ==
  IF raised # "ok" THEN [pc |-> "crashed", idx |-> position]
  ELSE [pc |-> "loop", idx |-> position + 1]

\* main: the stdout lines after an iteration
iteration_printed(filename, name, raised, lines) ==
  IF raised # "ok" THEN lines
  ELSE Append(lines, [filename |-> filename, new_filename |-> name])

\* main: the output paths set on the transformer before write_to_json
set_output_paths(self, name) ==
  [self EXCEPT !.json_output_file_path_concepts =
                  join(join(output_folder, CONCEPTS_DIR), name),
               !.json_output_file_path_codelists =
                  join(join(output_folder, CODELISTS_DIR), name)]

\* main: the end of an iteration, the parser having ended with raised
Written(filename, name, raised, self) ==
  /\ transformer' = self
  /\ fs' = iteration_files(self, raised, fs)
  /\ printed' = iteration_printed(filename, name, raised, printed)
  /\ pc' = iteration_next(raised, idx).pc
  /\ idx' = iteration_next(raised, idx).idx

\* main: an iteration from the parser's return (out) on
Named(filename, name, out) ==
  /\ requests' = requests \o out.lookups
  /\ Written(filename, name, out.raised,
             IF out.raised # "ok" THEN out.self ELSE set_output_paths(out.self, name))

\* main: an iteration from the construction of the transformer on
Parsed(filename, concept_name, out) ==
  Named(filename, new_filename(concept_name, out.self.concept.id), out)

\* main: an iteration for a file whose concept name is known
Constructed(file, concept_name, response) ==
  Parsed(file.filename, concept_name,
         parse(AD_csv_to_i14y_json(join(input_folder, file.filename), << >>,
                                   concept_name, responsible_key, deputy_key,
                                   date_valid_from, new, version),
               file, response))

\* main: one iteration of the loop for a .csv or .xml file; authOk tells
\* whether I14yApiClient() obtained its token, response is what the registry
\* answers to the lookup
Transform(file, authOk, response) ==
  IF ~authOk
  THEN /\ pc' = "crashed"
       /\ UNCHANGED <<new, folder, idx, transformer, fs, printed, requests, runs, api>>
  ELSE /\ Constructed(file, process_filename(file.filename), response)
       /\ UNCHANGED <<new, folder, runs, api>>

----------------------------------------------------------------------------
(* Inputs *)

MaxFiles == 3
MaxRuns == 2

P == <<"p">>
Q == <<"q">>
R1 == <<"R", "1">>
\* a registry id: "08dd632d-b3c5-ed64-a995-369c44b38c06"
R2 ==
  <<"0", "8", "d", "d", "6", "3", "2", "d", "-", "b", "3", "c", "5", "-", "e", "d", "6", "4", "-", "a", "9", "9", "5", "-", "3", "6", "9", "c", "4", "4", "b", "3", "8", "c", "0", "6">>

\* what _make_request gives the lookup: a failed request, a response without
\* data, a first result without id, one result, two results
Responses ==
  { RequestFailed,
    [ok |-> TRUE, data |-> << >>],
    [ok |-> TRUE, data |-> << [id |-> None] >>],
    [ok |-> TRUE, data |-> << [id |-> R1] >>],
    [ok |-> TRUE, data |-> << [id |-> R2], [id |-> R1] >>] }

\* a header cell
HeaderCell(lang, kind) == <<"D", " ">> \o lang \o <<" ">> \o kind

\* "Value Set F - 1.2"
FirstRowFull == VALUE_SET_ \o <<"F", " ", "-", " ", "1", ".", "2">>

HeaderPlain == << <<"a">>, <<"b">>, <<"C">>, <<"N">>, <<"I">>, <<"S">> >>

HeaderDE == HeaderPlain \o << HeaderCell(DE_CH, PREFERRED_TYPE),
                             HeaderCell(DE_CH, SYNONYM_TYPE) >>

RowPlain(code) == << << >>, << >>, code, <<"F", "o", "o">>, <<"I", "D">>, <<"C", "S">> >>

CsvFile(filename, rows) == [filename |-> filename, rows |-> rows]

XmlFile(filename, wellformed, hasValueSet, valueSet) ==
  [filename |-> filename, wellformed |-> wellformed, hasValueSet |-> hasValueSet,
   valueSet |-> valueSet]

ValueSet(name, id, sourceCodeSystems, descs, concepts) ==
  [name |-> name, id |-> id, sourceCodeSystems |-> sourceCodeSystems,
   descs |-> descs, concepts |-> concepts]

ConceptElem(code, level, displayName, codeSystem, designations) ==
  [code |-> code, level |-> level, displayName |-> displayName,
   codeSystem |-> codeSystem, designations |-> designations]

Designation(language, type, displayName) ==
  [language |-> language, type |-> type, displayName |-> displayName]

Desc(language, hasDiv, divText, text) ==
  [language |-> language, hasDiv |-> hasDiv, divText |-> divText, text |-> text]

SourceCodeSystems == << [id |-> <<"1">>, identifierName |-> <<"S", "N">>] >>

NoValueSet == ValueSet(None, None, << >>, << >>, << >>)

\* the files of the batches
BatchFiles ==
  { CsvFile(<<"V", "S", "_", "a", ".", "c", "s", "v">>,
            << <<FirstRowFull>>, HeaderDE,
               RowPlain(P) \o << <<"d">>, <<" ">> >> >>),
    CsvFile(<<"b", ".", "c", "s", "v">>, << <<FirstRowFull>>, HeaderPlain >>),
    CsvFile(<<"c", ".", "c", "s", "v">>,
            << <<FirstRowFull>>, HeaderPlain, << <<"x">>, <<"y">>, P >> >>),
    XmlFile(<<"d", ".", "x", "m", "l">>, TRUE, TRUE,
            ValueSet(<<"G">>, <<"1", ".", "3">>, SourceCodeSystems,
                     << Desc(DE_CH, TRUE, <<" ", "t">>, None) >>,
                     << ConceptElem(P, LEVEL_0, <<"n">>, <<"1">>, << >>),
                        ConceptElem(Q, <<"1">>, <<"m">>, <<"1">>,
                          << Designation(FR_CH, SYNONYM_TYPE, <<"s">>) >>) >>)),
    XmlFile(<<"e", ".", "x", "m", "l">>, TRUE, FALSE, NoValueSet),
    [filename |-> <<"f", ".", "t", "x", "t">>],
    CsvFile(<<"h", ".", "c", "s", "v">>, << >>) }

RECURSIVE SeqsUpTo(_, _)
SeqsUpTo(S, n) ==
  IF n = 0 THEN { << >> }
  ELSE LET shorter == SeqsUpTo(S, n - 1)
       IN shorter \cup {Append(q, x) : q \in shorter, x \in S}

\* os.listdir: no two files of a folder have the same name
Folders ==
  {q \in SeqsUpTo(BatchFiles, MaxFiles) :
     \A i, j \in 1..Len(q) : i # j => q[i].filename # q[j].filename}

\* _get_access_token: the seconds a token is refreshed before its expiry
TOKEN_MARGIN == 60

\* _get_access_token: expires_in when the token response does not give it
DEFAULT_EXPIRES_IN == 3600

\* the entries of the concept at the registry before any call
RemoteBefore == << <<"o">> >>

\* the answer of the token endpoint to the constructor of the client
FirstGrant == [ok |-> TRUE, given |-> FALSE, expires_in |-> 0]

\* I14yApiClient() whose constructor obtained a token valid for e seconds at
\* time 0, with the clock, the answers the token endpoint gave during the last
\* call, the requests the last call sent, the last call and the entries of the
\* concept at the registry
Client(e) ==
  [token |-> [issued |-> 0, expires_in |-> e],
   token_expiry |-> 0 + e - TOKEN_MARGIN,
   now |-> 0,
   ticks |-> 0,
   asked |-> << >>,
   sent |-> << >>,
   last |-> [op |-> "__init__", file_path |-> None,
             raised |-> "ok", returned |-> TRUE, new_uuid |-> None],
   remote |-> RemoteBefore]

\* main has not constructed a transformer yet
Unbound == [file_path |-> None]

\* main: a .csv file of the folder
TransformCsv ==
  /\ pc = "loop"
  /\ idx <= Len(folder)
  /\ endswith(folder[idx].filename, DOT_CSV)
  /\ \E authOk \in BOOLEAN, response \in Responses :
       Transform(folder[idx], authOk, response)

\* main: an .xml file of the folder
TransformXml ==
  /\ pc = "loop"
  /\ idx <= Len(folder)
  /\ ~endswith(folder[idx].filename, DOT_CSV)
  /\ endswith(folder[idx].filename, DOT_XML)
  /\ \E authOk \in BOOLEAN, response \in Responses :
       Transform(folder[idx], authOk, response)

\* main: a file of the folder that is neither .csv nor .xml
Skip ==
  /\ pc = "loop"
  /\ idx <= Len(folder)
  /\ ~IsInput(folder[idx].filename)
  /\ idx' = idx + 1
  /\ UNCHANGED <<new, folder, pc, transformer, fs, printed, requests, runs, api>>

\* main: the loop is over
Finish ==
  /\ pc = "loop"
  /\ idx > Len(folder)
  /\ pc' = "done"
  /\ UNCHANGED <<new, folder, idx, transformer, fs, printed, requests, runs, api>>

\* the script is run again on the same folders, with or without -n; the output
\* folder keeps the files of the earlier run
Invoke ==
  /\ pc \in {"done", "crashed"}
  /\ Len(runs) < MaxRuns - 1
  /\ runs' = Append(runs, [new |-> new, pc |-> pc, transformer |-> transformer,
                           requests |-> requests])
  /\ \E flag \in BOOLEAN : new' = flag
  /\ idx' = 1
  /\ pc' = "loop"
  /\ transformer' = Unbound
  /\ printed' = << >>
  /\ requests' = << >>
  /\ UNCHANGED <<folder, fs, api>>

\* the state in which main enters its loop over the files of a folder
Start(files) ==
  /\ new \in BOOLEAN
  /\ folder = files
  /\ idx = 1
  /\ pc = "loop"
  /\ transformer = Unbound
  /\ fs = << >>
  /\ printed = << >>
  /\ requests = << >>
  /\ runs = << >>
  /\ api = Client(DEFAULT_EXPIRES_IN)

(* a batch: a folder of up to MaxFiles files *)
Init == \E files \in Folders : Start(files)

Next == TransformCsv \/ TransformXml \/ Skip \/ Finish

Spec == Init /\ [][Next]_vars

----------------------------------------------------------------------------
(* One XML file: hierarchies of concept elements, and designations *)

MaxElems == 3
MaxDesig == 2

\* concept elements without designations: code absent, empty or set; level
\* "0", "1" or absent
HierElems ==
  {ConceptElem(c, l, <<"n">>, <<"1">>, << >>) :
     c \in {None, << >>, P, Q}, l \in {LEVEL_0, <<"1">>}}
  \cup {ConceptElem(P, None, <<"n">>, <<"2">>, << >>)}

\* designation elements: a synonym in each language whose displayName is
\* absent, empty, blank or a text; a preferred one in each language
Designations ==
  {Designation(l, SYNONYM_TYPE, x) :
     l \in {DE_CH, EN_US, FR_CH, IT_CH, RM_CH},
     x \in {None, << >>, <<" ">>, <<"s", " ">>}}
  \cup {Designation(l, PREFERRED_TYPE, <<"t">>) :
          l \in {DE_CH, EN_US, FR_CH, IT_CH, RM_CH}}
  \cup {Designation(EN_US, PREFERRED_TYPE, None),
        Designation(<<"x", "x">>, SYNONYM_TYPE, <<"s">>),
        Designation(DE_CH, <<"o">>, <<"s">>)}

XmlNamed(valueSet) == XmlFile(<<"V", "S", " ", "d", ".", "x", "m", "l">>, TRUE, TRUE, valueSet)

XmlFiles ==
  {XmlNamed(ValueSet(<<"G">>, <<"1", ".", "3">>, SourceCodeSystems, << >>, elems)) :
     elems \in SeqsUpTo(HierElems, MaxElems)}
  \cup
  {XmlNamed(ValueSet(<<"G">>, <<"1", ".", "3">>, SourceCodeSystems, << >>,
                     << ConceptElem(P, <<"1">>, <<"n">>, <<"1">>, d) >>)) :
     d \in SeqsUpTo(Designations, MaxDesig)}
  \cup
  {XmlNamed(ValueSet(<<"G">>, None, << >>, << Desc(l, h, v, t) >>,
                     << ConceptElem(P, LEVEL_0, <<"n">>, <<"1">>, << >>) >>)) :
     l \in {DE_CH, RM_CH}, h \in BOOLEAN, v \in {None, <<"v", " ">>},
     t \in {None, <<" ", "w">>}}
  \cup
  {XmlNamed(ValueSet(<<"G">>, <<"1", ".", "3">>, << >>,
                     << Desc(FR_CH, TRUE, <<"u">>, None), Desc(DE_CH, FALSE, None, None) >>,
                     << ConceptElem(P, LEVEL_0, <<"n">>, <<"1">>, << >>) >>))}
  \cup
  {XmlNamed(ValueSet(<<"G">>, <<"1", ".", "3">>, SourceCodeSystems, << >>,
                     << ConceptElem(<< >>, LEVEL_0, <<"n">>, <<"1">>, << >>),
                        ConceptElem(Q, <<"1">>, <<"n">>, <<"1">>, << >>),
                        ConceptElem(P, LEVEL_0, <<"n">>, <<"1">>, << >>),
                        ConceptElem(Q, <<"1">>, <<"n">>, <<"1">>, << >>) >>))}
  \cup
  {XmlFile(<<"e", ".", "x", "m", "l">>, TRUE, FALSE, NoValueSet),
   XmlFile(<<"g", ".", "x", "m", "l">>, FALSE, FALSE, NoValueSet)}

InitXml == \E file \in XmlFiles : Start(<<file>>)

NextXml == TransformXml \/ Finish

SpecXml == InitXml /\ [][NextXml]_vars

----------------------------------------------------------------------------
(* One CSV file: first rows, header rows and data rows *)

MaxRows == 2

FirstRows ==
  { <<FirstRowFull>>,
    << VALUE_SET_ \o <<"F", " ", "-", " ", "x">> >>,
    << <<"-", " ", "7", ".">>, <<"y">> >>,
    << >> }

\* two cells for de-CH preferred
HeaderTie == HeaderPlain \o << HeaderCell(DE_CH, PREFERRED_TYPE),
                              HeaderCell(DE_CH, PREFERRED_TYPE) >>

\* a cell with a language and both kinds, a cell for it-CH preferred among the
\* fixed columns, a language and a kind in two cells
HeaderMixed ==
  << <<"a">>, FR_CH \o SYNONYM_TYPE \o PREFERRED_TYPE, <<"C">>,
     HeaderCell(IT_CH, PREFERRED_TYPE), EN_US, PREFERRED_TYPE >>

HeaderRows == {HeaderPlain, HeaderDE, HeaderTie, HeaderMixed}

DataRows ==
  {RowPlain(c) : c \in {<< >>, P, <<" ", "q">>}}
  \cup {RowPlain(c) \o << <<"d">>, <<"s">> >> : c \in {P, Q}}
  \cup { << <<"x">>, <<"y">>, P >> }

CsvNamed(rows) == CsvFile(<<"V", "S", "_", "a", "_", ".", "c", "s", "v">>, rows)

CsvFiles ==
  {CsvNamed(<<first, header>> \o data) :
     first \in FirstRows, header \in HeaderRows, data \in SeqsUpTo(DataRows, MaxRows)}
  \cup {CsvNamed(<< >>), CsvNamed(<< <<FirstRowFull>> >>)}

InitCsv == \E file \in CsvFiles : Start(<<file>>)

NextCsv == TransformCsv \/ Finish

SpecCsv == InitCsv /\ [][NextCsv]_vars

----------------------------------------------------------------------------
(* The script run twice on a folder of one file, with and without -n *)

InitFlag == \E file \in BatchFiles : Start(<<file>>)

NextFlag == TransformCsv \/ TransformXml \/ Skip \/ Finish \/ Invoke

SpecFlag == InitFlag /\ [][NextFlag]_vars

----------------------------------------------------------------------------
(* Properties *)

\* main has constructed a transformer
Bound == transformer.file_path # None

\* the position in the folder of the file the transformer was constructed for
LastIdx ==
  CHOOSE i \in 1..Len(folder) : join(input_folder, folder[i].filename) = transformer.file_path

LastFile == folder[LastIdx]

\* the parser of the last iteration returned, and main wrote its output
ParserReturned == Bound /\ LastIdx < idx

\* the parser of the last iteration raised, and main ended
ParserRaised == Bound /\ LastIdx = idx /\ pc = "crashed"

IsCsv(file) == endswith(file.filename, DOT_CSV)

IsXml(file) == ~IsCsv(file) /\ endswith(file.filename, DOT_XML)

\* the codelist-entries document written by the last iteration
Rendered == fs[transformer.json_output_file_path_codelists].data

\* the concept document written by the last iteration
RenderedConcept == fs[transformer.json_output_file_path_concepts].data

\* the Code of the i-th entry the parser appended
CodeAt(i) == transformer.codeListEntries[i][1]

\* a text that is not None and has a character that is not whitespace
NonBlank(text) == text # None /\ \E j \in 1..Len(text) : text[j] \notin Whitespace

\* the places of the annotations of an entry that carry an identifier
Places(entry, identifier) ==
  {j \in 1..Len(entry.annotations) : entry.annotations[j].identifier = identifier}

\* C1: in process_xml a concept element of level "0" gets no parentCode, and
\* every element after it, up to the next element of level "0", gets its code
\* as parentCode
C1_ParentTracking ==
  (ParserReturned /\ IsXml(LastFile)) =>
    LET elems == LastFile.valueSet.concepts
    IN /\ Len(transformer.codeListEntries) = Len(elems)
       /\ \A i \in 1..Len(elems) :
            /\ elems[i].level = LEVEL_0 =>
                 /\ CodeAt(i).parentCode = None
                 /\ "parentCode" \notin DOMAIN Rendered[i]
            /\ \A j \in 1..(i - 1) :
                 (/\ elems[j].level = LEVEL_0
                  /\ \A k \in (j + 1)..i : elems[k].level # LEVEL_0)
                 => CodeAt(i).parentCode = elems[j].code

\* a parsed file <level 0, code q> <not level 0, code p> <not level 0>: the
\* third element has q as parent, not p, and the first has none
C1_Witness ==
  /\ ParserReturned /\ IsXml(LastFile)
  /\ LET elems == LastFile.valueSet.concepts
     IN /\ Len(elems) = 3
        /\ elems[1].level = LEVEL_0 /\ elems[1].code = Q
        /\ elems[2].level # LEVEL_0 /\ elems[2].code = P
        /\ elems[3].level # LEVEL_0
        /\ CodeAt(3).parentCode = Q
        /\ CodeAt(1).parentCode = None

\* C2: a rendered entry has the Acceptable designation iff one of the five
\* texts of its Acceptable synonym is non-empty after trimming, at most once,
\* and its text mapping has exactly the languages with such a text
C2_AcceptableIffNonBlank ==
  ParserReturned =>
    \A i \in 1..Len(transformer.codeListEntries) :
      LET synonymAS == transformer.codeListEntries[i][6]
          nonBlank == {k \in LangKeys : NonBlank(TextOf(synonymAS, k))}
          places == Places(Rendered[i], ACCEPTABLE_ID)
      IN /\ (places # {}) <=> (nonBlank # {})
         /\ Cardinality(places) <= 1
         /\ \A j \in places :
              /\ DOMAIN Rendered[i].annotations[j].text = nonBlank
              /\ \A k \in nonBlank :
                   Rendered[i].annotations[j].text[k] = TextOf(synonymAS, k)

\* an entry with a blank Acceptable text in one language and a text in another
\* is rendered with the Acceptable designation of one language
C2_Witness ==
  /\ ParserReturned
  /\ \E i \in 1..Len(transformer.codeListEntries) :
       /\ transformer.codeListEntries[i][6].Text_DE = <<" ">>
       /\ transformer.codeListEntries[i][6].Text_FR = <<"s", " ">>
       /\ \E j \in Places(Rendered[i], ACCEPTABLE_ID) :
            DOMAIN Rendered[i].annotations[j].text = {"fr"}

\* C3: in every rendered entry the CodeSystem annotation and the Preferred
\* designation are present and their text mappings have all five languages,
\* with the values of the entry, empty or not
C3_AllLanguagesKept ==
  ParserReturned =>
    \A i \in 1..Len(transformer.codeListEntries) :
      LET codeSystem == transformer.codeListEntries[i][2]
          synonymPS == transformer.codeListEntries[i][5]
          annotations == Rendered[i].annotations
      IN /\ annotations[1].type = TYPE_CODESYSTEM
         /\ DOMAIN annotations[1].text = LangKeys
         /\ \A k \in LangKeys : annotations[1].text[k] = TextOf(codeSystem, k)
         /\ Cardinality(Places(Rendered[i], PREFERRED_ID)) = 1
         /\ \A j \in Places(Rendered[i], PREFERRED_ID) :
              /\ DOMAIN annotations[j].text = LangKeys
              /\ \A k \in LangKeys : annotations[j].text[k] = TextOf(synonymPS, k)

\* an entry whose Preferred texts are all empty and whose code-system name is
\* None is rendered with a Preferred designation
C3_Witness ==
  /\ ParserReturned
  /\ \E i \in 1..Len(transformer.codeListEntries) :
       /\ \A k \in LangKeys : TextOf(transformer.codeListEntries[i][5], k) = << >>
       /\ \A k \in LangKeys : TextOf(transformer.codeListEntries[i][2], k) = None
       /\ Places(Rendered[i], PREFERRED_ID) # {}

\* C4: a rendered entry has the parentCode key iff the parentCode of its Code
\* is neither None nor empty, and the key has that value
C4_ParentCodeKey ==
  ParserReturned =>
    \A i \in 1..Len(transformer.codeListEntries) :
      /\ ("parentCode" \in DOMAIN Rendered[i])
           <=> (CodeAt(i).parentCode # None /\ CodeAt(i).parentCode # << >>)
      /\ "parentCode" \in DOMAIN Rendered[i]
           => Rendered[i].parentCode = CodeAt(i).parentCode

\* a parsed file with an entry whose parentCode is the empty string, rendered
\* without the key, and an entry whose parentCode is p, rendered with it
C4_Witness ==
  /\ ParserReturned
  /\ \E i, j \in 1..Len(transformer.codeListEntries) :
       /\ CodeAt(i).parentCode = << >>
       /\ "parentCode" \notin DOMAIN Rendered[i]
       /\ CodeAt(j).parentCode = P
       /\ "parentCode" \in DOMAIN Rendered[j]

\* the transformer main constructs for a file
Constructs(file) ==
  AD_csv_to_i14y_json(join(input_folder, file.filename), << >>,
                      process_filename(file.filename), responsible_key,
                      deputy_key, date_valid_from, new, version)

\* a file whose parser returns whatever the registry answers
ParsesWithoutError(file) ==
  \A response \in Responses :
    response.ok => parse(Constructs(file), file, response).raised = "ok"

\* the data rows of a CSV file, the concept elements of an XML file
NumEntries(file) ==
  IF IsCsv(file) THEN Len(file.rows) - 2 ELSE Len(file.valueSet.concepts)

\* the parser of a file reaches its call of get_concept_by_identifier
MakesLookup(file) ==
  IF IsCsv(file)
  THEN /\ file.rows # << >>
       /\ file.rows[1] # << >>
       /\ identifier_match(file.rows[1][1]) # None
  ELSE file.wellformed /\ file.hasValueSet

\* the response of the last lookup
LastResponse == requests[Len(requests)].response

\* a response with no data
NoData(response) == response.ok /\ response.data = << >>

\* a response whose first result has an id
Found(response) ==
  response.ok /\ response.data # << >> /\ Truthy(response.data[1].id)

\* C5: process_csv and create_codeListEntries_output give one entry per data
\* row, in row order, whose code is column 2 of the row, unchanged
C5_CodeVerbatim ==
  (ParserReturned /\ IsCsv(LastFile)) =>
    /\ DOMAIN Rendered = 1..(Len(LastFile.rows) - 2)
    /\ \A i \in DOMAIN Rendered : Rendered[i].code = At(LastFile.rows[i + 2], 2)

\* a CSV file with the data rows of codes " q" and p, rendered in that order
C5_Witness ==
  /\ ParserReturned /\ IsCsv(LastFile)
  /\ Len(LastFile.rows) = 4
  /\ Rendered[1].code = <<" ", "q">>
  /\ Rendered[2].code = P

\* C6: for a CSV whose first row gives an identifier, the output file is named
\* <concept-name>_R_transformed.json when the first result of the lookup has
\* the id R, and <concept-name>_transformed.json, the concept document having
\* no registry id, when the lookup has no data
C6_OutputName ==
  (/\ ParserReturned /\ IsCsv(LastFile)
   /\ identifier_match(LastFile.rows[1][1]) # None) =>
    LET name == printed[Len(printed)].new_filename
    IN /\ join(join(output_folder, CONCEPTS_DIR), name) \in DOMAIN fs
       /\ join(join(output_folder, CODELISTS_DIR), name) \in DOMAIN fs
       /\ Found(LastResponse) =>
            name = transformer.fileName \o <<"_">> \o LastResponse.data[1].id
                     \o TRANSFORMED_JSON
       /\ NoData(LastResponse) =>
            /\ name = transformer.fileName \o TRANSFORMED_JSON
            /\ "id" \notin DOMAIN RenderedConcept

\* C7: when the parser of a file fails, every later .csv or .xml file of the
\* folder that parses without error has its output written when main ends
C7_BatchContinues ==
  ParserRaised =>
    \A j \in (idx + 1)..Len(folder) :
      (IsInput(folder[j].filename) /\ ParsesWithoutError(folder[j])) =>
        \E k \in 1..Len(printed) :
          /\ printed[k].filename = folder[j].filename
          /\ join(join(output_folder, CODELISTS_DIR), printed[k].new_filename)
               \in DOMAIN fs

\* C8: the iteration in which a parser fails writes no file
C8_NoOutputOnFailure == [][ParserRaised' => fs' = fs]_vars

\* a parser failed after an earlier file of the folder was written
C8_Witness ==
  /\ ParserRaised
  /\ idx = 2
  /\ Len(printed) = 1
  /\ Cardinality(DOMAIN fs) = 2

\* C9: when the lookup of a parser returns no data, new_concept is true and
\* the concept has no registry id; the parser fails only if it fails as well
\* when the lookup finds the concept, and when it returns it has appended
\* every entry of the file
C9_LookupMiss ==
  (Bound /\ MakesLookup(LastFile) /\ NoData(LastResponse)) =>
    /\ transformer.new_concept = TRUE
    /\ transformer.concept.id = None
    /\ ParserRaised =>
         parse(Constructs(LastFile), LastFile,
               [ok |-> TRUE, data |-> << [id |-> R1] >>]).raised # "ok"
    /\ ParserReturned =>
         Len(transformer.codeListEntries) = NumEntries(LastFile)

\* without -n, an XML file of two concept elements and a CSV file of one data
\* row are parsed to the end after a lookup without data
C9_Witness ==
  /\ ~new
  /\ ParserReturned /\ MakesLookup(LastFile) /\ NoData(LastResponse)
  /\ IsXml(LastFile)
  /\ Len(transformer.codeListEntries) = 2
  /\ transformer.new_concept
  /\ \E k \in 1..Len(printed) : endswith(printed[k].filename, DOT_CSV)

\* two runs of the script on the same file, one with -n and one without, with
\* the same lookups and responses, both parsers having returned
TwoRuns ==
  /\ pc = "done" /\ Bound
  /\ runs # << >>
  /\ runs[1].pc = "done" /\ runs[1].transformer.file_path # None
  /\ runs[1].new # new
  /\ runs[1].requests = requests

\* the lookup was made and gave no registry id
Missed == requests # << >> /\ ~Found(LastResponse)

\* C10 as claimed: the two runs end with the same new_concept
C10_FlagHasNoEffect ==
  TwoRuns => runs[1].transformer.new_concept = transformer.new_concept

\* C10 as amended: new_concept is true when the lookup was made and gave no
\* registry id, and else is the -n flag; the two runs end with the same
\* new_concept only in the first case
C10_FlagUnlessMissed ==
  TwoRuns =>
    /\ transformer.new_concept = (Missed \/ new)
    /\ runs[1].transformer.new_concept = (Missed \/ runs[1].new)
    /\ (runs[1].transformer.new_concept = transformer.new_concept) <=> Missed

\* the two runs found the registry id R1 and end with different new_concept
C10_Witness ==
  /\ TwoRuns
  /\ Found(LastResponse)
  /\ transformer.concept.id = R1
  /\ runs[1].transformer.new_concept # transformer.new_concept


----------------------------------------------------------------------------
(* Designations of a concept element *)

\* the language tag behind a JSON language key
LangTag(k) ==
  CASE k = "de" -> DE_CH
    [] k = "en" -> EN_US
    [] k = "fr" -> FR_CH
    [] k = "it" -> IT_CH
    [] k = "rm" -> RM_CH

\* the displayName of the last designation of a type and a language, dflt when
\* the element has none
RECURSIVE LastText(_, _, _, _)
LastText(designations, type, lang, dflt) ==
  IF designations = << >> THEN dflt
  ELSE IF /\ designations[Len(designations)].type = type
          /\ designations[Len(designations)].language = lang
       THEN designations[Len(designations)].displayName
       ELSE LastText(SubSeq(designations, 1, Len(designations) - 1), type, lang, dflt)

\* C11: in process_xml the Preferred text of a language is that of the last
\* preferred designation in it, the Acceptable text that of the last synonym
\* designation in it; the display name of de, fr, it and rm is the text of the
\* last preferred designation in that language, the displayName attribute
\* when there is none, and the English display name is always the displayName
\* attribute
C11_Designations ==
  (ParserReturned /\ IsXml(LastFile)) =>
    \A i \in 1..Len(LastFile.valueSet.concepts) :
      \A k \in LangKeys :
        /\ TextOf(transformer.codeListEntries[i][5], k)
             = LastText(LastFile.valueSet.concepts[i].designations,
                        PREFERRED_TYPE, LangTag(k), << >>)
        /\ TextOf(transformer.codeListEntries[i][6], k)
             = LastText(LastFile.valueSet.concepts[i].designations,
                        SYNONYM_TYPE, LangTag(k), << >>)
        /\ DisplayNameOf(CodeAt(i), k)
             = IF k = "en" THEN LastFile.valueSet.concepts[i].displayName
               ELSE LastText(LastFile.valueSet.concepts[i].designations,
                             PREFERRED_TYPE, LangTag(k),
                             LastFile.valueSet.concepts[i].displayName)
        /\ Rendered[i].name[k] = DisplayNameOf(CodeAt(i), k)

\* an element named n with a preferred designation t in en-US and a synonym
\* designation in de-CH: the English display name stays n, the Preferred
\* English text is t, the German display name stays n
C11_Witness ==
  /\ ParserReturned /\ IsXml(LastFile)
  /\ Len(transformer.codeListEntries) = 1
  /\ Len(LastFile.valueSet.concepts[1].designations) = 2
  /\ \E j \in 1..2 :
       /\ LastFile.valueSet.concepts[1].designations[j].type = PREFERRED_TYPE
       /\ LastFile.valueSet.concepts[1].designations[j].language = EN_US
  /\ \E j \in 1..2 :
       /\ LastFile.valueSet.concepts[1].designations[j].type = SYNONYM_TYPE
       /\ LastFile.valueSet.concepts[1].designations[j].language = DE_CH
  /\ transformer.codeListEntries[1][5].Text_EN = <<"t">>
  /\ transformer.codeListEntries[1][6].Text_DE = <<"s", " ">>
  /\ Rendered[1].name["en"] = <<"n">>
  /\ Rendered[1].name["de"] = <<"n">>

----------------------------------------------------------------------------
(* One file under each of a set of file names *)

DocumentEntry_eventCodeList ==
  <<"D", "o", "c", "u", "m", "e", "n", "t", "E", "n", "t", "r", "y", ".", "e", "v", "e", "n", "t", "C", "o", "d", "e", "L", "i", "s", "t">>

\* " (download 2025-01-22T07_36_23)"
DownloadSuffix ==
  <<" ", "(", "d", "o", "w", "n", "l", "o", "a", "d", " ", "2", "0", "2", "5", "-", "0", "1", "-", "2", "2", "T", "0", "7", "_", "3", "6", "_", "2", "3", ")">>

\* a file name in its parts: a "VS " or "VS_" prefix or none, a core, trailing
\* underscores, a parenthesized suffix and the extension
NameParts ==
  {n \in [pre : {<< >>, <<"V", "S", " ">>, <<"V", "S", "_">>},
          core : {DocumentEntry_eventCodeList, <<"a", " ", "b">>,
                  <<"V", "S", "_", "b">>, <<"d", "_", "e">>},
          trail : {<< >>, <<"_">>, <<"_", "_">>},
          paren : {<< >>, DownloadSuffix, <<"(", "x", ")">>},
          ext : {DOT_CSV, DOT_XML}] :
     n.pre = << >> => ~StartsAt(n.core, 1, <<"V", "S">>)}

NameOf(n) == n.pre \o n.core \o n.trail \o n.paren \o n.ext

\* names outside that shape: a newline before the extension, two
\* parenthesized parts, an extension in capitals before the extension
OtherNames ==
  { <<"a", "_", "\n">> \o DOT_CSV,
    <<"a", "(", "x", ")", "b", " ", "(", ")">> \o DOT_XML,
    <<"a", ".", "C", "S", "V">> \o DOT_CSV,
    <<" ", "V", "S", "_", "a">> \o DOT_XML }

NamedFile(filename) ==
  IF endswith(filename, DOT_CSV)
  THEN CsvFile(filename, << <<FirstRowFull>>, HeaderPlain, RowPlain(P) >>)
  ELSE XmlFile(filename, TRUE, TRUE,
               ValueSet(<<"G">>, <<"1", ".", "3">>, SourceCodeSystems, << >>,
                        << ConceptElem(P, LEVEL_0, <<"n">>, <<"1">>, << >>) >>))

InitName ==
  \E filename \in {NameOf(n) : n \in NameParts} \cup OtherNames :
    Start(<<NamedFile(filename)>>)

NextName == TransformCsv \/ TransformXml \/ Finish

SpecName == InitName /\ [][NextName]_vars

\* the three file names of the docstring of process_filename
FilenameExamples ==
  { <<"V", "S", " ">> \o DocumentEntry_eventCodeList \o DownloadSuffix \o DOT_CSV,
    <<"V", "S", "_">> \o DocumentEntry_eventCodeList \o DOT_CSV,
    DocumentEntry_eventCodeList \o DOT_CSV }

\* C12: the concept name main gets from process_filename for a file name made
\* of a "VS " or "VS_" prefix, a core, trailing underscores, a parenthesized
\* suffix and the extension is the core; the three file names of the
\* docstring give "DocumentEntry.eventCodeList"
C12_ProcessFilename ==
  Bound =>
    /\ \A n \in NameParts :
         LastFile.filename = NameOf(n) => transformer.fileName = n.core
    /\ LastFile.filename \in FilenameExamples
         => transformer.fileName = DocumentEntry_eventCodeList

\* main has constructed the transformer of
\* "VS DocumentEntry.eventCodeList (download 2025-01-22T07_36_23).csv"
C12_Witness ==
  /\ Bound
  /\ LastFile.filename
       = <<"V", "S", " ">> \o DocumentEntry_eventCodeList \o DownloadSuffix \o DOT_CSV
  /\ transformer.fileName = DocumentEntry_eventCodeList

----------------------------------------------------------------------------
(* A batch after which the last transformer is serialized a second time *)

\* write_to_json called again on the transformer main constructed last, once
\* main's loop is over
Reserialize ==
  /\ pc = "done"
  /\ Bound
  /\ fs' = write_to_json(transformer, fs)
  /\ pc' = "again"
  /\ UNCHANGED <<new, folder, idx, transformer, printed, requests, runs, api>>

NextTwice == TransformCsv \/ TransformXml \/ Skip \/ Finish \/ Reserialize

SpecTwice == Init /\ [][NextTwice]_vars

----------------------------------------------------------------------------
(* The columns of a CSV file *)

\* the columns (counted from 1) of a header row whose cell has the language
\* tag of a JSON language key and a kind tag
HeaderHits(index_row, k, kind) ==
  {c \in 1..Len(index_row) :
     Contains(index_row[c], LangTag(k)) /\ Contains(index_row[c], kind)}

\* the text of a language in the synonym of a kind of an entry
KindText(entry, kind, k) ==
  TextOf(IF kind = PREFERRED_TYPE THEN entry[5] ELSE entry[6], k)

\* the display name of an entry that a (language, kind) pair fills
FillsName(kind, k) == kind = PREFERRED_TYPE /\ k # "en"

\* no cell of the header row has a language tag and a kind tag
ResolvesNothing(index_row) ==
  \A k \in LangKeys, kind \in {PREFERRED_TYPE, SYNONYM_TYPE} :
    HeaderHits(index_row, k, kind) = {}

\* C14: for the entry of every data row of a CSV file and every (language,
\* kind) pair: when no cell of the header row has both tags the text of the
\* pair, and the display name it fills, are empty; else they are the row's
\* value in the leftmost such column. A file with its two first rows whose
\* header resolves nothing and whose data rows have six columns is parsed
\* without an error of the parser's own
C14_IndexResolution ==
  (Bound /\ IsCsv(LastFile)) =>
    /\ \A i \in 1..Len(transformer.codeListEntries) :
         \A k \in LangKeys, kind \in {PREFERRED_TYPE, SYNONYM_TYPE} :
           IF HeaderHits(LastFile.rows[2], k, kind) = {}
           THEN /\ KindText(transformer.codeListEntries[i], kind, k) = << >>
                /\ FillsName(kind, k) => DisplayNameOf(CodeAt(i), k) = << >>
           ELSE \E c \in HeaderHits(LastFile.rows[2], k, kind) :
                  /\ \A d \in HeaderHits(LastFile.rows[2], k, kind) : c <= d
                  /\ KindText(transformer.codeListEntries[i], kind, k)
                       = LastFile.rows[i + 2][c]
                  /\ FillsName(kind, k)
                       => DisplayNameOf(CodeAt(i), k) = LastFile.rows[i + 2][c]
    /\ (/\ Len(LastFile.rows) >= 2
        /\ LastFile.rows[1] # << >>
        /\ ResolvesNothing(LastFile.rows[2])
        /\ \A j \in 3..Len(LastFile.rows) : Len(LastFile.rows[j]) >= 6
        /\ requests # << >> => LastResponse.ok)
       => ~ParserRaised

\* a parsed file whose header has two de-CH preferred cells and whose row has
\* d in the first and s in the second: the German texts are d, the French
\* ones, which no cell resolves, are empty
C14_Witness ==
  /\ ParserReturned /\ IsCsv(LastFile)
  /\ LastFile.rows[2] = HeaderTie
  /\ Len(transformer.codeListEntries) = 1
  /\ LastFile.rows[3][7] = <<"d">> /\ LastFile.rows[3][8] = <<"s">>
  /\ CodeAt(1).DisplayNameDE = <<"d">>
  /\ transformer.codeListEntries[1][5].Text_DE = <<"d">>
  /\ CodeAt(1).DisplayNameFR = << >>
  /\ transformer.codeListEntries[1][6].Text_FR = << >>

\* C15: the entry rendered for a CSV data row has the row's column 3 as
\* name.en and a first annotation of type CodeSystem whose title and five
\* texts are the row's column 5 and whose identifier is its column 4; when
\* the header resolves no language column, name.de, name.fr, name.it and
\* name.rm are empty and there is no Acceptable designation
C15_FixedColumns ==
  (ParserReturned /\ IsCsv(LastFile)) =>
    /\ Len(Rendered) = Len(LastFile.rows) - 2
    /\ \A i \in 1..Len(Rendered) :
         /\ Rendered[i].name["en"] = At(LastFile.rows[i + 2], 3)
         /\ Rendered[i].annotations[1].type = TYPE_CODESYSTEM
         /\ Rendered[i].annotations[1].title = At(LastFile.rows[i + 2], 5)
         /\ \A k \in LangKeys :
              Rendered[i].annotations[1].text[k] = At(LastFile.rows[i + 2], 5)
         /\ Rendered[i].annotations[1].identifier = At(LastFile.rows[i + 2], 4)
         /\ ResolvesNothing(LastFile.rows[2]) =>
              /\ \A k \in LangKeys \ {"en"} : Rendered[i].name[k] = << >>
              /\ Places(Rendered[i], ACCEPTABLE_ID) = {}

\* a parsed file with a plain header and the row ;;p;Foo;ID;CS: the entry is
\* named Foo in English only and its code system is CS with identifier ID
C15_Witness ==
  /\ ParserReturned /\ IsCsv(LastFile)
  /\ LastFile.rows[2] = HeaderPlain
  /\ Len(Rendered) = 1
  /\ Rendered[1].code = P
  /\ Rendered[1].name["en"] = <<"F", "o", "o">>
  /\ Rendered[1].name["de"] = << >>
  /\ Rendered[1].annotations[1].title = <<"C", "S">>
  /\ Rendered[1].annotations[1].identifier = <<"I", "D">>
  /\ Len(Rendered[1].annotations) = 4

----------------------------------------------------------------------------
(* The date of validity *)

\* C16: after a parse that returned, the validFrom of the concept document
\* and of every rendered entry is the date given to main
C16_OneValidFrom ==
  ParserReturned =>
    /\ RenderedConcept.validFrom = date_valid_from
    /\ \A i \in 1..Len(Rendered) : Rendered[i].validFrom = date_valid_from

----------------------------------------------------------------------------
(* The order of the annotations *)

\* C17: the annotations of every rendered entry are the CodeSystem, the
\* Period "end", the Period "start" and the Preferred designation, in this
\* order, followed by nothing or by the Acceptable designation alone
C17_AnnotationOrder ==
  ParserReturned =>
    \A i \in 1..Len(Rendered) :
      /\ Len(Rendered[i].annotations) \in {4, 5}
      /\ Rendered[i].annotations[1].type = TYPE_CODESYSTEM
      /\ Rendered[i].annotations[2].type = TYPE_PERIOD
      /\ Rendered[i].annotations[2].identifier = PERIOD_END
      /\ Rendered[i].annotations[2].text["en"] = DEFAULT_PERIOD_END
      /\ Rendered[i].annotations[3].type = TYPE_PERIOD
      /\ Rendered[i].annotations[3].identifier = PERIOD_START
      /\ Rendered[i].annotations[3].text["en"] = DEFAULT_PERIOD_START
      /\ Rendered[i].annotations[4].type = TYPE_DESIGNATION
      /\ Rendered[i].annotations[4].identifier = PREFERRED_ID
      /\ Len(Rendered[i].annotations) = 5 =>
           /\ Rendered[i].annotations[5].type = TYPE_DESIGNATION
           /\ Rendered[i].annotations[5].identifier = ACCEPTABLE_ID

\* an entry rendered with its five annotations
C17_Witness ==
  /\ ParserReturned
  /\ \E i \in 1..Len(Rendered) :
       /\ Len(Rendered[i].annotations) = 5
       /\ Rendered[i].annotations[5].identifier = ACCEPTABLE_ID
       /\ Rendered[i].annotations[2].identifier = PERIOD_END

----------------------------------------------------------------------------
(* Failures of the parsers *)

\* a desc element with neither a div that has text nor text of its own
TextLess(desc) == ~(desc.hasDiv /\ desc.divText # None) /\ desc.text = None

\* main has parsed an XML document that has a valueSet element, and the
\* lookup got an answer
XmlLookedUp ==
  /\ Bound /\ IsXml(LastFile)
  /\ LastFile.wellformed /\ LastFile.hasValueSet
  /\ requests # << >> /\ LastResponse.ok

\* C18: the parse of an XML document with a desc element without text
\* returns, with an entry for every concept element
C18_TextLessDescSkipped ==
  (XmlLookedUp /\ \E j \in 1..Len(LastFile.valueSet.descs) :
                    TextLess(LastFile.valueSet.descs[j]))
    => /\ ParserReturned
       /\ Len(transformer.codeListEntries) = Len(LastFile.valueSet.concepts)

\* how the parser of the last file ended: "ok" or the exception it raised
LastRaised ==
  parse(Constructs(LastFile), LastFile,
        IF requests = << >> THEN RequestFailed ELSE LastResponse).raised

\* the columns (counted from 1) the loop body reads of a data row: those of
\* the indexes 2 to 5 and the leftmost column of every pair the header has
ColumnsRead(index_row) ==
  {3, 4, 5, 6}
  \cup {c \in 1..Len(index_row) :
          \E k \in LangKeys, kind \in {PREFERRED_TYPE, SYNONYM_TYPE} :
            /\ c \in HeaderHits(index_row, k, kind)
            /\ \A d \in HeaderHits(index_row, k, kind) : c <= d}

\* the data rows of a CSV file that lack a column the loop body reads
ShortRows(file) ==
  {j \in 3..Len(file.rows) :
     \E c \in ColumnsRead(file.rows[2]) : Len(file.rows[j]) < c}

\* main has parsed a CSV file up to its data rows: the two first rows are
\* there and the lookup, when made, got an answer
CsvRowsReached ==
  /\ Bound /\ IsCsv(LastFile)
  /\ Len(LastFile.rows) >= 2
  /\ LastFile.rows[1] # << >>
  /\ requests # << >> => LastResponse.ok

\* C19: the parse of a CSV file with a data row that lacks a column read of
\* it ends with an IndexError at the first such row: the entries are those
\* of the rows before it, and nothing is written
C19_ShortRowFails ==
  (CsvRowsReached /\ ShortRows(LastFile) # {}) =>
    /\ ParserRaised
    /\ LastRaised = "IndexError"
    /\ Len(transformer.codeListEntries) = Min(ShortRows(LastFile)) - 3
    /\ \A i \in 1..Len(transformer.codeListEntries) :
         CodeAt(i).Code = At(LastFile.rows[i + 2], 2)

\* a file whose header has the de-CH columns 6 and 7, whose first data row
\* has eight columns and whose second has six: the parse raised after the
\* entry of the first
C19_Witness ==
  /\ ParserRaised /\ IsCsv(LastFile)
  /\ Len(LastFile.rows) = 4
  /\ LastFile.rows[2] = HeaderDE
  /\ Len(LastFile.rows[3]) = 8 /\ Len(LastFile.rows[4]) = 6
  /\ Len(transformer.codeListEntries) = 1
  /\ LastRaised = "IndexError"

\* the file of the last iteration lacks its top-level structure: a CSV file
\* without a row, an XML document without a valueSet element
NoStructure ==
  \/ IsCsv(LastFile) /\ LastFile.rows = << >>
  \/ IsXml(LastFile) /\ LastFile.wellformed /\ ~LastFile.hasValueSet

\* C20: the parser of a CSV file without a row, and of an XML document
\* without a valueSet element, raises before it has looked the concept up or
\* appended an entry
C20_NoStructureFails ==
  (Bound /\ NoStructure) =>
    /\ ParserRaised
    /\ LastRaised = IF IsCsv(LastFile) THEN "StopIteration" ELSE "AttributeError"
    /\ transformer.codeListEntries = << >>
    /\ transformer.concept = concept

\* a batch whose first file was written and whose second file, a CSV file
\* without a row, ended main
C20_Witness ==
  /\ ParserRaised /\ IsCsv(LastFile)
  /\ LastFile.rows = << >>
  /\ LastIdx = 2
  /\ Len(printed) = 1

----------------------------------------------------------------------------
(* A batch after which the parser of the last transformer is called again *)

\* the files of these batches: two CSV files, with and without a data row, an
\* XML document that ends below a parent, and one that begins with an element
\* of level "1" and whose name gives the concept name of the first CSV file
AgainFiles ==
  { CsvFile(<<"V", "S", "_", "a", ".", "c", "s", "v">>,
            << <<FirstRowFull>>, HeaderPlain, RowPlain(P) >>),
    CsvFile(<<"b", ".", "c", "s", "v">>, << <<FirstRowFull>>, HeaderPlain >>),
    XmlFile(<<"d", ".", "x", "m", "l">>, TRUE, TRUE,
            ValueSet(<<"G">>, <<"1", ".", "3">>, SourceCodeSystems, << >>,
                     << ConceptElem(P, LEVEL_0, <<"n">>, <<"1">>, << >>),
                        ConceptElem(Q, <<"1">>, <<"m">>, <<"1">>, << >>) >>)),
    XmlFile(<<"a", ".", "x", "m", "l">>, TRUE, TRUE,
            ValueSet(<<"H">>, <<"1", ".", "4">>, SourceCodeSystems, << >>,
                     << ConceptElem(Q, <<"1">>, <<"n">>, <<"1">>, << >>),
                        ConceptElem(P, LEVEL_0, <<"n">>, <<"1">>, << >>),
                        ConceptElem(Q, <<"1">>, <<"n">>, <<"1">>, << >>) >>)) }

\* the end of a second call of the parser: out is what it returned
Reparsed(out) ==
  /\ transformer' = out.self
  /\ requests' = requests \o out.lookups
  /\ pc' = IF out.raised = "ok" THEN "reparsed" ELSE "crashed"
  /\ UNCHANGED <<new, folder, idx, fs, printed, runs, api>>

\* process_csv or process_xml called a second time on the transformer main
\* constructed last, once main's loop is over
Reparse ==
  /\ pc = "done"
  /\ Bound
  /\ \E response \in Responses : Reparsed(parse(transformer, LastFile, response))

InitAgain ==
  \E files \in {q \in SeqsUpTo(AgainFiles, MaxFiles) :
                  \A i, j \in 1..Len(q) : i # j => q[i].filename # q[j].filename} :
    Start(files)

NextAgain == TransformCsv \/ TransformXml \/ Finish \/ Reparse

SpecAgain == InitAgain /\ [][NextAgain]_vars

\* the entries the last call of the parser appended begin after this many
\* entries of the transformer
Offset == Len(transformer.codeListEntries) - NumEntries(LastFile)

\* C21: after a parse of an XML document, the first or the second on its
\* transformer, the concept elements before the first element of level "0"
\* have no parentCode, and main renders them without the key
C21_ParentResetPerParse ==
  (Bound /\ IsXml(LastFile) /\ pc \in {"loop", "done", "reparsed"}) =>
    \A i \in 1..Len(LastFile.valueSet.concepts) :
      (\A j \in 1..i : LastFile.valueSet.concepts[j].level # LEVEL_0) =>
        /\ CodeAt(Offset + i).parentCode = None
        /\ "parentCode" \notin DOMAIN Rendered[i]

\* a.xml, which begins with an element of level "1" and ends below the parent
\* p, parsed after d.xml and then a second time on its transformer: the first
\* entry of the second parse has no parent, its third entry has p
C21_Witness ==
  /\ pc = "reparsed"
  /\ IsXml(LastFile)
  /\ Len(folder) = 2 /\ LastIdx = 2 /\ IsXml(folder[1])
  /\ Len(LastFile.valueSet.concepts) = 3
  /\ Len(transformer.codeListEntries) = 6
  /\ CodeAt(3).parentCode = P
  /\ CodeAt(4).parentCode = None
  /\ CodeAt(6).parentCode = P

----------------------------------------------------------------------------
(* The lookups of a parse *)

\* the identifier the parser of a file extracts, None when there is none or
\* the parser does not get that far
Extracted(file) ==
  IF IsCsv(file)
  THEN IF file.rows = << >> \/ file.rows[1] = << >> THEN None
       ELSE identifier_match(file.rows[1][1])
  ELSE IF file.wellformed /\ file.hasValueSet THEN file.valueSet.id ELSE None

\* C22: the parser of a file makes at most one lookup, none when it extracts
\* no identifier, and a lookup is made with the identifier extracted
C22_LookupOnlyWithIdentifier ==
  (Bound /\ Len(folder) = 1) =>
    /\ Len(requests) <= 1
    /\ Extracted(LastFile) = None => requests = << >>
    /\ requests # << >> => requests[1].identifier = Extracted(LastFile)

\* C23: after a call of a parser that returned, the first or the second on
\* its transformer, the transformer has one entry for every data row or
\* concept element of the file, and no other
C23_NoCarryOver ==
  (Bound /\ pc \in {"loop", "done", "reparsed"}) =>
    Len(transformer.codeListEntries) = NumEntries(LastFile)

\* C25: a lookup whose request failed does not end main with an exception
C25_FailedLookupReturnsNone ==
  [][(/\ Len(requests') > Len(requests)
      /\ ~requests'[Len(requests')].response.ok) => pc' # "crashed"]_vars

----------------------------------------------------------------------------
(* The concept of a parsed file *)

\* the name the parser of a file extracts, None when there is none
ExtractedName(file) ==
  IF IsCsv(file) THEN name_match(file.rows[1][1]) ELSE file.valueSet.name

\* C28: after a parse that returned, the concept of the transformer has the
\* name and the identifier extracted from the file and, when the lookup found
\* one, the registry id; the concept document has that name and identifier
C28_ConceptOfEveryFile ==
  ParserReturned =>
    /\ transformer.concept.name = ExtractedName(LastFile)
    /\ transformer.concept.identifier = Extracted(LastFile)
    /\ RenderedConcept.identifier = Extracted(LastFile)
    /\ RenderedConcept.name["de"] = ExtractedName(LastFile)
    /\ (Len(folder) = 1 /\ requests # << >> /\ Found(LastResponse))
         => transformer.concept.id = LastResponse.data[1].id

----------------------------------------------------------------------------
(* The outputs of a batch *)

\* C30: when main has ended and the parser of every file of the folder has
\* returned, every file has printed an output name of its own, and the output
\* folder has a concept document and an entries document under each
C30_OwnOutputs ==
  (pc = "done" /\ Len(printed) = Len(folder)) =>
    /\ \A i, j \in 1..Len(printed) :
         i # j => printed[i].new_filename # printed[j].new_filename
    /\ Cardinality(DOMAIN fs) = 2 * Len(folder)
----------------------------------------------------------------------------
(* I14yApiClient: tokens, requests and the replacement of a concept's entries *)

\* the number of times the clock advances between calls
MaxTicks == 1

\* the seconds that pass between two calls
Steps == {30, 3540}

\* the answers of the token endpoint: an error, or a token with its lifetime
\* (given is FALSE when the answer has no "expires_in")
Grants ==
  {[ok |-> FALSE, given |-> FALSE, expires_in |-> 0], FirstGrant}
  \cup {[ok |-> TRUE, given |-> TRUE, expires_in |-> e] : e \in {30, 120}}

\* the token endpoint is asked only by a client whose token reached
\* token_expiry
Asked(c) == IF c.now < c.token_expiry THEN {FirstGrant} ELSE Grants

\* the ends of a request: a RequestException, or a response
Outcomes == {[ok |-> FALSE], [ok |-> TRUE]}

\* data.get("expires_in", 3600)
lifetime(grant) == IF grant.given THEN grant.expires_in ELSE DEFAULT_EXPIRES_IN

\* the token endpoint answered: the answer is recorded with the number of
\* requests the call had sent before
answered(c, grant) ==
  [c EXCEPT !.asked = Append(@, [at |-> c.now, ok |-> grant.ok,
                                 before |-> Len(c.sent)])]

\* _get_access_token reusing the cached token for another minute after
\* token_expiry
_get_access_token_late(c, grant) ==
  IF c.now < c.token_expiry + 2 * TOKEN_MARGIN
    THEN [raised |-> "ok", cached |-> TRUE, c |-> c]
    ELSE IF ~grant.ok
      THEN [raised |-> "I14yApiError", cached |-> FALSE, c |-> answered(c, grant)]
      ELSE [raised |-> "ok", cached |-> FALSE,
            c |-> [answered(c, grant) EXCEPT
                     !.token = [issued |-> c.now, expires_in |-> lifetime(grant)],
                     !.token_expiry = c.now + lifetime(grant) - TOKEN_MARGIN]]

\* _get_access_token: the cached token while time.time() < token_expiry, else
\* a new one; a constructed client always has an auth_token
_get_access_token(c, grant) ==
  IF c.now < c.token_expiry
    THEN [raised |-> "ok", cached |-> TRUE, c |-> c]
    ELSE IF ~grant.ok
      THEN [raised |-> "I14yApiError", cached |-> FALSE, c |-> answered(c, grant)]
      ELSE [raised |-> "ok", cached |-> FALSE,
            c |-> [answered(c, grant) EXCEPT
                     !.token = [issued |-> c.now, expires_in |-> lifetime(grant)],
                     !.token_expiry = c.now + lifetime(grant) - TOKEN_MARGIN]]

\* _make_request after _get_access_token: the request goes out with the
\* client's token; the result is None (ok FALSE) after a RequestException
request_with_token(tok, method, outcome) ==
  IF tok.raised # "ok"
    THEN [raised |-> tok.raised, c |-> tok.c, result |-> [ok |-> FALSE]]
    ELSE [raised |-> "ok",
          c |-> [tok.c EXCEPT !.sent =
                   Append(@, [method |-> method,
                              at |-> tok.c.now,
                              token |-> tok.c.token,
                              cached |-> tok.cached,
                              ok |-> outcome.ok])],
          result |-> outcome]

\* _make_request
_make_request(c, method, grant, outcome) ==
  request_with_token(_get_access_token(c, grant), method, outcome)

\* the registry after a DELETE of the concept's entries that succeeded
deleted(r) ==
  IF r.raised = "ok" /\ r.result.ok THEN [r EXCEPT !.c.remote = << >>] ELSE r

\* delete_codelist_entries
delete_codelist_entries(c, grant, outcome) ==
  deleted(_make_request(c, "DELETE", grant, outcome))

\* the registry after an import of entries that succeeded
imported(r, entries) ==
  IF r.raised = "ok" /\ r.result.ok
    THEN [r EXCEPT !.c.remote = @ \o entries]
    ELSE r

\* post_codelist_entries: None without a request when the file does not exist
post_codelist_entries(c, files, file_path, grant, outcome) ==
  IF file_path \notin DOMAIN files
    THEN [raised |-> "ok", c |-> c, result |-> [ok |-> FALSE]]
    ELSE imported(_make_request(c, "POST", grant, outcome),
                  files[file_path].data)

\* update_codelist_entries: the value returned after post_codelist_entries
update_after_post(p) ==
  [raised |-> p.raised, c |-> p.c, returned |-> p.raised = "ok" /\ p.result.ok]

\* update_codelist_entries posting whatever the delete did
update_codelist_entries_anyway(c, files, file_path, grant, grant2, del, post) ==
  update_after_post(
    post_codelist_entries(
      delete_codelist_entries(c, grant, del).c,
      files, file_path, grant2, post))

\* update_codelist_entries: the delete, then the post when the delete returned
\* a result
update_after_delete(d, files, file_path, grant, post) ==
  IF d.raised # "ok" \/ ~d.result.ok
    THEN [raised |-> d.raised, c |-> d.c, returned |-> FALSE]
    ELSE update_after_post(
           post_codelist_entries(d.c, files, file_path, grant, post))

\* update_codelist_entries
update_codelist_entries(c, files, file_path, grant, grant2, del, post) ==
  update_after_delete(delete_codelist_entries(c, grant, del),
                      files, file_path, grant2, post)

\* a path at which no file exists
MissingPath == <<"n", "o", "n", "e">>

\* the codelist files main wrote, and a path without a file
CodelistPaths ==
  {join(join(output_folder, CODELISTS_DIR), printed[k].new_filename) :
     k \in 1..Len(printed)} \cup {MissingPath}

\* a client about to be called: asked and sent hold what happened in one call
Calling(c) == [c EXCEPT !.asked = << >>, !.sent = << >>]

\* a call on the client ended: it is recorded with its inputs and its end
Called(op, file_path, r, new_uuid) ==
  /\ api' = [r.c EXCEPT !.last =
               [op |-> op, file_path |-> file_path,
                raised |-> r.raised, returned |-> r.returned,
                new_uuid |-> new_uuid]]
  /\ UNCHANGED <<new, folder, idx, pc, transformer, printed, requests, runs>>

\* time passes between two calls
Tick ==
  /\ pc = "done"
  /\ api.ticks < MaxTicks
  /\ \E d \in Steps :
       api' = [api EXCEPT !.now = @ + d, !.ticks = @ + 1]
  /\ UNCHANGED <<new, folder, idx, pc, transformer, fs, printed, requests, runs>>

\* a script calls update_codelist_entries for a file of the output folder
UpdateCodelistEntries ==
  /\ pc = "done"
  /\ \E file_path \in CodelistPaths, del, post \in Outcomes, grant \in Asked(api) :
       \E grant2 \in Asked(_get_access_token(api, grant).c) :
         Called("update", file_path,
                update_codelist_entries(Calling(api), fs, file_path,
                                        grant, grant2, del, post),
                None)
  /\ fs' = fs

\* the id the registry gives a concept that was posted:
\* "bdc10a38-45d3-46c4-92d0-4ba1f6a16018"
NEW_UUID ==
  <<"b", "d", "c", "1", "0", "a", "3", "8", "-", "4", "5", "d", "3", "-", "4", "6", "c", "4", "-", "9", "2", "d", "0", "-", "4", "b", "a", "1", "f", "6", "a", "1", "6", "0", "1", "8">>

HexDigits == Digits \cup {"a", "b", "c", "d", "e", "f", "A", "B", "C", "D", "E", "F"}

\* [0-9a-f]{8}-[0-9a-f]{4}-[0-9a-f]{4}-[0-9a-f]{4}-[0-9a-f]{12}, re.IGNORECASE,
\* matches s from position i on
UuidAt(s, i) ==
  /\ i + 35 <= Len(s)
  /\ \A k \in 0..35 :
       IF k \in {8, 13, 18, 23} THEN s[i + k] = "-" ELSE s[i + k] \in HexDigits

\* os.path.basename
basename(path) ==
  LET slashes == {i \in 1..Len(path) : path[i] = "/"}
  IN IF slashes = {} THEN path
     ELSE SubSeq(path, (CHOOSE m \in slashes : \A n \in slashes : n <= m) + 1,
                 Len(path))

\* os.path.dirname
dirname(path) ==
  LET slashes == {i \in 1..Len(path) : path[i] = "/"}
  IN IF slashes = {} THEN << >>
     ELSE SubSeq(path, 1, (CHOOSE m \in slashes : \A n \in slashes : n <= m) - 1)

\* extract_identifier_from_filename: re.search gives the leftmost match
extract_identifier_from_filename(filename) ==
  LET hits == {i \in 1..Len(filename) : UuidAt(filename, i)}
  IN IF hits = {} THEN None ELSE SubSeq(filename, Min(hits), Min(hits) + 35)

\* re.match(r'^(.+?)_<uuid>', concept_filename).group(1): the shortest
\* non-empty head that "_" and a UUID follow
concept_name_match(concept_filename) ==
  LET hits == {i \in 2..Len(concept_filename) :
                 concept_filename[i] = "_" /\ UuidAt(concept_filename, i + 1)}
  IN IF hits = {} THEN None ELSE SubSeq(concept_filename, 1, Min(hits) - 1)

\* str.replace(old, new) from position i on
RECURSIVE replace_from(_, _, _, _)
replace_from(s, i, old, repl) ==
  IF i > Len(s) THEN << >>
  ELSE IF StartsAt(s, i, old) THEN repl \o replace_from(s, i + Len(old), old, repl)
  ELSE <<s[i]>> \o replace_from(s, i + 1, old, repl)

\* str.replace
replace(s, old, repl) == replace_from(s, 1, old, repl)

\* os.listdir
listdir(files, dir) == {basename(p) : p \in {q \in DOMAIN files : dirname(q) = dir}}

\* os.rename
rename(files, src, dst) ==
  [p \in (DOMAIN files \ {src}) \cup {dst} |->
     IF p = dst THEN files[src] ELSE files[p]]

\* _rename_codelist_with_new_uuid once old_uuid and concept_name are known:
\* the file systems it may leave, one for each file os.listdir may give first
\* among those that start with concept_name and contain old_uuid
rename_in(files, codelist_dir, concept_name, old_uuid, new_uuid) ==
  LET found == {filename \in listdir(files, codelist_dir) :
                  StartsAt(filename, 1, concept_name) /\ Contains(filename, old_uuid)}
  IN IF found = {} THEN {files}
     ELSE {rename(files, join(codelist_dir, filename),
                  join(codelist_dir, replace(filename, old_uuid, new_uuid))) :
             filename \in found}

\* _rename_codelist_with_new_uuid: nothing is renamed when the name of the
\* concept file holds no UUID, or no name before it, or when there is no
\* Codelists directory beside the directory of the concept file
_rename_codelist_with_new_uuid(files, concept_file_path, new_uuid) ==
  LET concept_filename == basename(concept_file_path)
      old_uuid == extract_identifier_from_filename(concept_filename)
      concept_name == concept_name_match(concept_filename)
      codelist_dir == join(dirname(dirname(concept_file_path)), CODELISTS_DIR)
  IN IF old_uuid = None \/ concept_name = None THEN {files}
     ELSE IF ~Contains(dirname(concept_file_path), CONCEPTS_DIR)
             \/ listdir(files, codelist_dir) = {}
       THEN {files}
     ELSE rename_in(files, codelist_dir, concept_name, old_uuid, new_uuid)

\* str.strip('"')
strip_quotes(s) ==
  LET keep == {i \in 1..Len(s) : s[i] # "\""}
  IN IF keep = {} THEN << >>
     ELSE SubSeq(s, Min(keep), CHOOSE m \in keep : \A n \in keep : n <= m)

\* the ends of the request that posts a concept: a RequestException, a JSON
\* string, a JSON object with data.id, one with id, or an answer without id
Bodies ==
  {[ok |-> FALSE, kind |-> "none", id |-> None],
   [ok |-> TRUE, kind |-> "str", id |-> <<"\"">> \o NEW_UUID \o <<"\"">>],
   [ok |-> TRUE, kind |-> "data", id |-> NEW_UUID],
   [ok |-> TRUE, kind |-> "id", id |-> NEW_UUID],
   [ok |-> TRUE, kind |-> "other", id |-> None]}

\* post_new_concept: the UUID it reads from the response
new_uuid_of(response) ==
  IF ~response.ok THEN None
  ELSE IF response.kind = "str" THEN strip_quotes(response.id)
  ELSE IF response.kind \in {"data", "id"} THEN response.id
  ELSE None

\* post_new_concept after the request: the codelist file is renamed when the
\* response gave a UUID
posted_concept(r, files, file_path) ==
  [raised |-> r.raised, c |-> r.c,
   returned |-> r.raised = "ok" /\ r.result.ok,
   new_uuid |-> IF r.raised = "ok" THEN new_uuid_of(r.result) ELSE None,
   files |-> IF r.raised = "ok" /\ new_uuid_of(r.result) \notin {None, << >>}
               THEN _rename_codelist_with_new_uuid(files, file_path,
                                                   new_uuid_of(r.result))
               ELSE {files}]

\* post_new_concept: None without a request when the file does not exist (the
\* files main wrote are JSON documents)
post_new_concept(c, files, file_path, grant, body) ==
  IF file_path \notin DOMAIN files
    THEN [raised |-> "ok", c |-> c, returned |-> FALSE, new_uuid |-> None,
          files |-> {files}]
    ELSE posted_concept(_make_request(c, "POST", grant, body), files, file_path)

\* the concept files main wrote, and a path without a file
ConceptPaths ==
  {join(join(output_folder, CONCEPTS_DIR), printed[k].new_filename) :
     k \in 1..Len(printed)} \cup {MissingPath}

\* a script calls post_new_concept for a file of the output folder
PostNewConcept ==
  /\ pc = "done"
  /\ \E file_path \in ConceptPaths, grant \in Asked(api), body \in Bodies :
       LET r == post_new_concept(Calling(api), fs, file_path, grant, body)
       IN /\ Called("post", file_path, r, r.new_uuid)
          /\ fs' \in r.files

\* the folders transformed before the registry is updated
ApiFiles ==
  {CsvFile(<<"V", "S", "_", "a", ".", "c", "s", "v">>,
           << <<FirstRowFull>>, HeaderPlain, RowPlain(P) >>)}

\* a batch over one of these files, then calls on a client
InitApi == \E file \in ApiFiles : Start(<<file>>)

NextApi ==
  TransformCsv \/ Finish \/ Tick \/ UpdateCodelistEntries \/ PostNewConcept

SpecApi == InitApi /\ [][NextApi]_vars

\* C26: every request _make_request sent carries a token that has not
\* expired: a cached token went out only before token_expiry (its acquisition
\* time plus expires_in minus the margin), any other token was obtained at the
\* time of the request; and when the token endpoint refused, the call raised
\* I14yApiError and sent no request from then on
C26_UnexpiredToken ==
  /\ \A i \in DOMAIN api.sent :
       LET r == api.sent[i]
       IN /\ r.at < r.token.issued + r.token.expires_in
          /\ r.cached => r.at < r.token.issued + r.token.expires_in - TOKEN_MARGIN
          /\ ~r.cached => r.token.issued = r.at
  /\ \A k \in DOMAIN api.asked :
       ~api.asked[k].ok =>
         /\ api.last.raised = "I14yApiError"
         /\ Len(api.sent) = api.asked[k].before
  /\ api.last.raised = "I14yApiError" =>
       \E k \in DOMAIN api.asked : ~api.asked[k].ok

\* after the clock advanced, update_codelist_entries obtained a new token, sent
\* its DELETE with it and was refused the token for its POST
C26_Witness ==
  /\ api.last.op = "update"
  /\ api.last.raised = "I14yApiError"
  /\ Len(api.sent) = 1
  /\ ~api.sent[1].cached
  /\ api.sent[1].at = api.token_expiry + TOKEN_MARGIN - api.token.expires_in
  /\ api.now > 0

\* the requests of the last call, by method
Methods == [i \in DOMAIN api.sent |-> api.sent[i].method]

\* C24: update_codelist_entries first sends the DELETE of the concept's
\* entries and then the POST of the new ones: the POST goes out only after a
\* DELETE that gave a result, never after one that failed, and the value
\* returned is true if and only if both gave a result
C24_DeleteThenPost ==
  api.last.op = "update" =>
    /\ Methods \in {<< >>, <<"DELETE">>, <<"DELETE", "POST">>}
    /\ Len(api.sent) = 2 => api.sent[1].ok
    /\ api.last.raised = "ok" =>
         /\ Len(api.sent) >= 1
         /\ api.last.returned
              <=> (Len(api.sent) = 2 /\ api.sent[1].ok /\ api.sent[2].ok)

\* update_codelist_entries returned true for a file with an entry: the DELETE
\* and the POST went out and the registry holds the entries of the file
C24_Witness ==
  /\ api.last.op = "update"
  /\ api.last.raised = "ok"
  /\ api.last.returned
  /\ Methods = <<"DELETE", "POST">>
  /\ api.remote # << >>
  /\ api.remote = fs[api.last.file_path].data

\* a step in which a call of op on the client ends
CallOf(op) == pc = "done" /\ api'.ticks = api.ticks /\ api'.last.op = op

\* C29: update_codelist_entries is all-or-nothing towards the registry: when
\* it has returned, the concept's entries at the registry are those of the
\* posted file (true was returned) or those that were there before the call
\* (false was returned)
C29_AllOrNothing ==
  [][(CallOf("update") /\ api'.last.raised = "ok") =>
       IF api'.last.returned
         THEN api'.remote = fs[api'.last.file_path].data
         ELSE api'.remote = api.remote]_vars

\* the Codelists directory main writes to
CodelistsDir == join(output_folder, CODELISTS_DIR)

\* the names process_filename gave the input files whose concept document is
\* at path
ConceptNamesAt(path) ==
  {process_filename(printed[k].filename) :
     k \in {j \in DOMAIN printed :
              join(join(output_folder, CONCEPTS_DIR), printed[j].new_filename) = path}}

\* C27: after post_new_concept got an answer that gives a new UUID, the
\* codelist file of the posted concept file (a file of the Codelists directory
\* whose name starts with the concept name) has a name that contains that UUID
C27_CodelistRenamed ==
  [][(CallOf("post") /\ api'.last.returned
        /\ api'.last.new_uuid \notin {None, << >>}) =>
       \A concept_name \in ConceptNamesAt(api'.last.file_path) :
         \E p \in DOMAIN fs' :
           /\ dirname(p) = CodelistsDir
           /\ StartsAt(basename(p), 1, concept_name)
           /\ Contains(basename(p), api'.last.new_uuid)]_vars
====
